---------------------------- MODULE Spec2Model ----------------------------
(***************************************************************************)
(* Research Orchestration Core of the AI Research Assistant.               *)
(*                                                                         *)
(* Three specifications over one set of variables:                         *)
(*   SpecLoop  ResearchAgent.research, the iterative research loop         *)
(*             (src/agents/research_agents.py)                             *)
(*   SpecPar   ParallelResearchCoordinator.parallel_research, the          *)
(*             thread-pool coordinator (src/agents/parallel_agents.py)     *)
(*   Spec      ResearchOrchestrator.conduct_research / resume_session      *)
(*             over the SessionManager, the MemoryBank and the             *)
(*             observability singleton (src/orchestrator.py)               *)
(* Each specification leaves the variables of the other two at their       *)
(* initial values.  Relevance scores are in tenths (0.5 is 5).             *)
(***************************************************************************)
EXTENDS Integers, Sequences, FiniteSets, TLC

VARIABLES
    (* MemoryBank.memories, shared by the three components *)
    memories,
    (* ResearchAgent.research: position and locals *)
    lp_pc, sub_questions, iteration, queries, qi, iteration_sources,
    all_sources, research_log,
    (* environment of the loop: last judgment-function outcome, the calls made *)
    llm_last, gap_calls, gap_args, search_calls,
    (* ParallelResearchCoordinator.parallel_research: position, arguments, the
       futures of the pool, the locals of the collecting thread (par_log_task: the
       task each log entry was written for), the backend queries each task has
       issued, the result *)
    par_pc, par_questions, par_workers, par_task, par_done, par_snapshot,
    par_collected, par_all_sources, par_research_log, par_log_task,
    par_search_calls, par_result, async_result,
    (* ResearchOrchestrator: SessionManager.sessions, observability.session, the
       position in conduct_research / resume_session and their locals *)
    sessions, obs_session, orch_pc, orch_stage, orch_op, session_id, query,
    stage_out, results,
    (* of the current run: the agents invoked, the values current_stage took,
       the statuses given to end_session, where an exception was raised;
       and the number of operations started *)
    agent_calls, stage_trace, end_calls, raised_in, runs,
    (* the stages whose judgment call failed *)
    failed_calls,
    (* one call of plan_research, validate or rank_results: the function, its
       arguments, its return value *)
    fn_pc, fn_name, fn_in, fn_out,
    (* SessionCheckpointService: the files of storage_dir, what the last
       load_checkpoint was asked and returned (with the state last saved under
       that id when it was called); the state last saved under each id and the
       number of calls made *)
    ckpt_files, ckpt_loaded, ckpt_saved, ckpt_ops,
    (* AgentBus: _subs; the position of the publish in progress, its arguments,
       its local handlers and the index of the next one; the handler calls it
       has made; _subs as it was when handlers was taken; the subscribe calls
       made, in order, and the number of publish calls made *)
    bus_subs, bus_pc, bus_pub, bus_handlers, bus_next, bus_calls, bus_subs_then,
    bus_subscribed, bus_published,
    (* the Fact Store handed to research(): its store_source raises *)
    store_fails,
    (* fastapi_app: the task of each session id *)
    research_tasks,
    (* AgentBus used by several threads: the holder of _lock, the calls of
       subscribe and publish in progress on each thread (innermost last), and
       the history of subscriptions, snapshots, handler calls and returns *)
    bus_lock, bus_stack, bus_log

loopVars == <<lp_pc, sub_questions, iteration, queries, qi, iteration_sources,
              all_sources, research_log, llm_last, gap_calls, gap_args, search_calls>>

parVars == <<par_pc, par_questions, par_workers, par_task, par_done, par_snapshot,
             par_collected, par_all_sources, par_research_log, par_log_task,
             par_search_calls, par_result, async_result>>

orchVars == <<sessions, obs_session, orch_pc, orch_stage, orch_op, session_id, query,
              stage_out, results, agent_calls, stage_trace, end_calls, raised_in, runs>>

funVars == <<fn_pc, fn_name, fn_in, fn_out>>

ckptVars == <<ckpt_files, ckpt_loaded, ckpt_saved, ckpt_ops>>
busVars == <<bus_subs, bus_pc, bus_pub, bus_handlers, bus_next, bus_calls, bus_subs_then,
             bus_subscribed, bus_published>>
svcVars == <<ckptVars, busVars>>
lockVars == <<bus_lock, bus_stack, bus_log>>

vars == <<memories, loopVars, parVars, orchVars, funVars, failed_calls, svcVars, lockVars, store_fails, research_tasks>>

\* what each component leaves alone
notLoop == <<parVars, orchVars, funVars, failed_calls, svcVars, lockVars, store_fails, research_tasks>>
notPar == <<loopVars, orchVars, funVars, failed_calls, svcVars, lockVars, store_fails, research_tasks>>
notOrch == <<loopVars, parVars, funVars, failed_calls, svcVars, lockVars, store_fails, research_tasks>>
notFun == <<memories, loopVars, parVars, orchVars, failed_calls, svcVars, lockVars, store_fails, research_tasks>>
notSvc == <<memories, loopVars, parVars, orchVars, funVars, failed_calls, store_fails,
           research_tasks, lockVars>>
notApi == <<memories, loopVars, parVars, orchVars, funVars, failed_calls, store_fails,
           lockVars>>
notBus == <<memories, loopVars, parVars, orchVars, funVars, failed_calls, store_fails,
           research_tasks, ckptVars, bus_pc, bus_pub, bus_handlers, bus_next, bus_calls,
           bus_subs_then>>

----------------------------------------------------------------------------
(* Python values *)

\* None, and a key that is absent from a dict
None == "<None>"
NoScore == -1

\* x or ""
OrEmpty(x) == IF x = None THEN "" ELSE x

Min(a, b) == IF a < b THEN a ELSE b

\* s[:n]
TakeAll(s, n) == s

Take(s, n) == SubSeq(s, 1, Min(n, Len(s)))

----------------------------------------------------------------------------
(* MemoryBank (src/memory/memory_bank.py) *)

StoreMemory(mem, content, category, importance, metadata) ==
    Append(mem, [id |-> Len(mem) + 1, content |-> content, category |-> category,
                 importance |-> importance, metadata |-> metadata])

\* {'url': url, 'title': title, **metadata}: the caller's keys win
StoreSource(mem, url, title, content, relevance, metadata) ==
    StoreMemory(mem, content, "source", relevance,
                metadata @@ [url |-> url, title |-> title])

----------------------------------------------------------------------------
(* The judgment function's reply, as a sequence of tokens, and               *)
(* QueryPlannerAgent._safe_load_json                                         *)

Tok(t) == [t |-> t, k |-> "", b |-> FALSE, qs |-> <<>>]
LBrace == Tok("{")
RBrace == Tok("}")
LBrack == Tok("[")
RBrack == Tok("]")
Num    == Tok("num")
Word   == Tok("word")
\* "k": true / false
BoolField(k, b) == [t |-> "field", k |-> k, b |-> b, qs |-> <<>>]
\* "k": ["q", ...]
ListField(k, qs) == [t |-> "field", k |-> k, b |-> FALSE, qs |-> qs]

IsFields(s) == \A i \in 1..Len(s) : s[i].t = "field"

FirstIndex(s, t) ==
    IF \E i \in 1..Len(s) : s[i].t = t
    THEN CHOOSE i \in 1..Len(s) : s[i].t = t /\ \A j \in 1..(i-1) : s[j].t # t
    ELSE 0

LastIndex(s, t) ==
    IF \E i \in 1..Len(s) : s[i].t = t
    THEN CHOOSE i \in 1..Len(s) : s[i].t = t /\ \A j \in (i+1)..Len(s) : s[j].t # t
    ELSE 0

IsObject(s) ==
    /\ Len(s) >= 2
    /\ s[1].t = "{"
    /\ s[Len(s)].t = "}"
    /\ IsFields(SubSeq(s, 2, Len(s) - 1))

\* the elements of an array: numbers and flat objects
RECURSIVE IsValues(_)
IsValues(s) ==
    IF s = <<>> THEN TRUE
    ELSE IF s[1].t = "num" THEN IsValues(Tail(s))
    ELSE IF s[1].t = "{"
         THEN LET j == FirstIndex(s, "}")
              IN  /\ j # 0
                  /\ IsFields(SubSeq(s, 2, j - 1))
                  /\ IsValues(SubSeq(s, j + 1, Len(s)))
    ELSE FALSE

IsArray(s) ==
    /\ Len(s) >= 2
    /\ s[1].t = "["
    /\ s[Len(s)].t = "]"
    /\ IsValues(SubSeq(s, 2, Len(s) - 1))

EmptyDict == [ok |-> TRUE, kind |-> "dict", fields |-> <<>>]

\* json.loads: ok = FALSE is the raised exception
JsonLoads(s) ==
    IF Len(s) = 1 /\ s[1].t = "num" THEN [ok |-> TRUE, kind |-> "scalar", fields |-> <<>>]
    ELSE IF IsObject(s) THEN [ok |-> TRUE, kind |-> "dict", fields |-> SubSeq(s, 2, Len(s) - 1)]
    ELSE IF IsArray(s) THEN [ok |-> TRUE, kind |-> "list", fields |-> <<>>]
    ELSE [ok |-> FALSE, kind |-> "error", fields |-> <<>>]

SafeLoadJson(text) ==
    IF text = <<>> THEN EmptyDict
    ELSE IF JsonLoads(text).ok THEN JsonLoads(text)
    ELSE LET start == FirstIndex(text, "{")
             end   == LastIndex(text, "}")
         IN  IF start # 0 /\ end # 0 /\ end > start
                /\ JsonLoads(SubSeq(text, start, end)).ok
             THEN JsonLoads(SubSeq(text, start, end))
             ELSE EmptyDict

\* dict.get for a parsed object: the last occurrence of a key wins
HasKey(fields, k) == \E i \in 1..Len(fields) : fields[i].k = k
Get(fields, k) ==
    fields[CHOOSE i \in 1..Len(fields) :
               fields[i].k = k /\ \A j \in (i+1)..Len(fields) : fields[j].k # k]
GetList(fields, k) == IF HasKey(fields, k) THEN Get(fields, k).qs ELSE <<>>


----------------------------------------------------------------------------
(* ResearchAgent (src/agents/research_agents.py) *)

max_iterations == 3
QueriesPerTurn == 2
DefaultRelevance == 5

DefaultGap == [next_search |-> <<>>, need_more |-> FALSE]

\* an outcome of BaseAgent._call_llm: it raises, or it returns a reply text
Raised == [raised |-> TRUE, text |-> <<>>]
Reply(text) == [raised |-> FALSE, text |-> text]
NoCall == [raised |-> FALSE, text |-> <<Tok("no call")>>]

IdentifyGapsKeepGoing(outcome) ==
    IF outcome.raised THEN [next_search |-> <<>>, need_more |-> TRUE]
    ELSE LET parsed == SafeLoadJson(outcome.text)
         IN  IF parsed.kind # "dict" THEN [next_search |-> <<>>, need_more |-> TRUE]
             ELSE [next_search |-> GetList(parsed.fields, "next_search"),
                   need_more |-> TRUE]

\* _identify_gaps, given the outcome of its judgment call
IdentifyGaps(outcome) ==
    IF outcome.raised THEN DefaultGap
    ELSE LET parsed == SafeLoadJson(outcome.text)
             f == parsed.fields
             next_search ==
                 IF GetList(f, "next_search") # <<>> THEN GetList(f, "next_search")
                 ELSE IF GetList(f, "next_search_queries") # <<>>
                      THEN GetList(f, "next_search_queries")
                 ELSE GetList(f, "next_searches")
             need_more ==
                 IF HasKey(f, "need_more") THEN Get(f, "need_more").b
                 ELSE IF HasKey(f, "need_more_research")
                      THEN Get(f, "need_more_research").b
                 ELSE FALSE
         IN  IF parsed.kind # "dict" THEN DefaultGap
             ELSE [next_search |-> next_search, need_more |-> need_more]

\* the replies the judgment function is taken to give
NmT == BoolField("need_more", TRUE)
GapReplies ==
    { <<>>,
      <<Word, Word>>,
      <<Num>>,
      <<LBrack, LBrace, NmT, ListField("next_search", <<"g1">>), RBrace, RBrack>>,
      <<LBrace, RBrace>>,
      <<LBrace, NmT, RBrace>>,
      <<LBrace, NmT, ListField("next_search", <<"g1">>), RBrace>>,
      <<LBrace, BoolField("need_more", FALSE), ListField("next_search", <<"g1">>), RBrace>>,
      <<LBrace, ListField("next_search", <<"g1">>), RBrace>>,
      <<Word, LBrace, NmT, ListField("next_search", <<"", "g1", "g2">>), RBrace, Word>>,
      <<Word, LBrace, NmT, Word, RBrace>>,
      <<RBrace, NmT, LBrace>>,
      <<LBrace, NmT, RBrace, Word, LBrace, ListField("next_search", <<"g1">>), RBrace>>,
      <<LBrace, BoolField("need_more_research", TRUE),
        ListField("next_search_queries", <<"g2">>), RBrace>> }

LLMOutcomes == {Raised} \cup {Reply(t) : t \in GapReplies}

\* an outcome of search_tool.search: it raises, or it returns {"results": [...]}
ItemA == [url |-> "ua", title |-> "ta", content |-> "ca", relevance_score |-> 9]
ItemB == [url |-> None, title |-> None, content |-> None, relevance_score |-> NoScore]
SearchRaised == [raised |-> TRUE, results |-> <<>>]
SearchOutcomes ==
    {SearchRaised} \cup {[raised |-> FALSE, results |-> r] : r \in {<<>>, <<ItemA>>, <<ItemB, ItemA>>}}

\* lines 216-220: the result of one search; a search that raises counts as one
\* that found nothing
SearchResultStale(r) == IF r.raised THEN <<ItemA>> ELSE r.results

SearchResult(r) == IF r.raised THEN <<>> ELSE r.results

\* the normalized source of research(), lines 224-231
Normalize(source) ==
    [url |-> OrEmpty(source.url),
     title |-> OrEmpty(source.title),
     content |-> OrEmpty(source.content),
     relevance_score |-> IF source.relevance_score = NoScore
                         THEN DefaultRelevance ELSE source.relevance_score]

NormalizeAll(raw) == [i \in 1..Len(raw) |-> Normalize(raw[i])]

\* memory_bank.store_source for each normalized source of one query
RECURSIVE StoreFound(_, _, _, _)
StoreFound(mem, found, it, q) ==
    IF found = <<>> THEN mem
    ELSE StoreFound(
             StoreSource(mem, found[1].url, found[1].title, found[1].content,
                         found[1].relevance_score, [iteration |-> it, query |-> q]),
             Tail(found), it, q)

\* lines 235-244: a store_source that raises is caught and logged, the source
\* stays in iteration_sources
StoreFoundCaught(mem, found, it, q) ==
    IF store_fails THEN mem ELSE StoreFound(mem, found, it, q)

\* for iteration in range(self.max_iterations)
LoopContinuesOffByOne == iteration <= max_iterations
LoopContinues == iteration < max_iterations

ResearchResultOfLastTurn ==
    [sources |-> iteration_sources,
     research_log |-> research_log,
     iterations_completed |-> Len(research_log),
     total_sources |-> Len(iteration_sources)]

\* the result assembled at the return statement
ResearchResult ==
    [sources |-> all_sources,
     research_log |-> research_log,
     iterations_completed |-> Len(research_log),
     total_sources |-> Len(all_sources)]

\* research has returned
LoopReturned == lp_pc \in {"converged", "exhausted"}

\* the head of the for loop: the range is used up
LoopExhausted ==
    /\ lp_pc = "for"
    /\ ~LoopContinues
    /\ lp_pc' = "exhausted"
    /\ UNCHANGED <<notLoop, memories, sub_questions, iteration, queries, qi, iteration_sources,
                   all_sources, research_log, llm_last, gap_calls, gap_args, search_calls>>

FirstQueriesReversed(sqs) ==
    [i \in 1..Len(sqs) |-> OrEmpty(sqs[Len(sqs) + 1 - i].question)]

\* line 204: [s.get("question") or "" for s in sub_questions]
FirstQueries(sqs) == [i \in 1..Len(sqs) |-> OrEmpty(sqs[i].question)]

\* iteration == 0: the queries are the sub-question texts
LoopFirstTurn ==
    /\ lp_pc = "for"
    /\ LoopContinues
    /\ iteration = 0
    /\ queries' = FirstQueries(sub_questions)
    /\ iteration_sources' = <<>>
    /\ qi' = 1
    /\ lp_pc' = "search"
    /\ UNCHANGED <<notLoop, memories, sub_questions, iteration, all_sources, research_log,
                   llm_last, gap_calls, gap_args, search_calls>>

\* a later turn: _identify_gaps, then break or the next queries
LoopGapTurn ==
    /\ lp_pc = "for"
    /\ LoopContinues
    /\ iteration # 0
    /\ \E o \in LLMOutcomes :
          LET gap == IdentifyGaps(o)
          IN  /\ llm_last' = o
              /\ gap_calls' = gap_calls + 1
              /\ gap_args' = Append(gap_args,
                     [iteration |-> iteration, sources |-> all_sources,
                      sub_questions |-> sub_questions, searches |-> Len(search_calls)])
              /\ IF ~gap.need_more
                 THEN /\ lp_pc' = "converged"
                      /\ UNCHANGED <<queries, qi, iteration_sources>>
                 ELSE /\ queries' = gap.next_search
                      /\ iteration_sources' = <<>>
                      /\ qi' = 1
                      /\ lp_pc' = "search"
    /\ UNCHANGED <<notLoop, memories, sub_questions, iteration, all_sources, research_log,
                   search_calls>>

\* for q in queries[:2]: an empty q is skipped
LoopSkipQuery ==
    /\ lp_pc = "search"
    /\ qi <= Len(Take(queries, QueriesPerTurn))
    /\ queries[qi] = ""
    /\ qi' = qi + 1
    /\ UNCHANGED <<notLoop, memories, lp_pc, sub_questions, iteration, queries, iteration_sources,
                   all_sources, research_log, llm_last, gap_calls, gap_args, search_calls>>

\* one search: a failure counts as no results; every result is normalized and stored
LoopSearch ==
    /\ lp_pc = "search"
    /\ qi <= Len(Take(queries, QueriesPerTurn))
    /\ queries[qi] # ""
    /\ \E r \in SearchOutcomes :
          LET found == NormalizeAll(SearchResult(r))
          IN  /\ search_calls' = Append(search_calls,
                     [iteration |-> iteration, query |-> queries[qi],
                      raised |-> r.raised, found |-> Len(found)])
              /\ iteration_sources' = iteration_sources \o found
              /\ memories' = StoreFoundCaught(memories, found, iteration, queries[qi])
    /\ qi' = qi + 1
    /\ UNCHANGED <<notLoop, lp_pc, sub_questions, iteration, queries, all_sources, research_log,
                   llm_last, gap_calls, gap_args>>

IterationRecordZeroBased(it, qs, found) ==
    [iteration |-> it, queries |-> qs, sources_found |-> Len(found)]

\* lines 246-250: the record of a turn
IterationRecord(it, qs, found) ==
    [iteration |-> it + 1, queries |-> qs, sources_found |-> Len(found)]

\* the end of a turn: extend all_sources, append the iteration record
LoopEndTurn ==
    /\ lp_pc = "search"
    /\ qi > Len(Take(queries, QueriesPerTurn))
    /\ all_sources' = all_sources \o iteration_sources
    /\ research_log' = Append(research_log,
           IterationRecord(iteration, queries, iteration_sources))
    /\ iteration' = iteration + 1
    /\ lp_pc' = "for"
    /\ UNCHANGED <<notLoop, memories, sub_questions, queries, qi, iteration_sources,
                   llm_last, gap_calls, gap_args, search_calls>>

\* the sub-questions research() is called with
MaxSubQ == 2
QuestionTexts == {None, "", "qa"}
SubQuestion(q) == [question |-> q, priority |-> 5, search_strategy |-> "general"]
RECURSIVE SeqsUpTo(_, _)
SeqsUpTo(S, n) ==
    IF n = 0 THEN {<<>>}
    ELSE SeqsUpTo(S, n - 1) \cup
         {Append(s, x) : s \in {t \in SeqsUpTo(S, n - 1) : Len(t) = n - 1}, x \in S}

\* up to MaxSubQ sub-questions, and one plan of more sub-questions than a turn
\* searches
LoopPlans ==
    SeqsUpTo({SubQuestion(q) : q \in QuestionTexts}, MaxSubQ)
    \cup {[i \in 1..(QueriesPerTurn + 1) |-> SubQuestion("qa")],
          <<SubQuestion("qa"), SubQuestion(""), SubQuestion("qa"), SubQuestion("qa")>>}

----------------------------------------------------------------------------
(* QueryPlannerAgent (src/agents/research_agents.py) *)

\* "k": v in a reply, v a JSON value
ValueField(k, v) == [t |-> "field", k |-> k, b |-> FALSE, qs |-> <<>>, v |-> v]
IntVal(n) == [ty |-> "int", n |-> n]
StrVal(x) == [ty |-> "str", s |-> x]
ListVal(items) == [ty |-> "list", items |-> items]
NullVal == [ty |-> "null"]

\* the value of a field of a parsed object
ValueOf(field) == IF "v" \in DOMAIN field THEN field.v ELSE [ty |-> "bool", b |-> field.b]

\* str.split(): a text is a sequence of characters, the words are the maximal
\* runs without white space
RECURSIVE SplitAcc(_, _, _)
SplitAcc(rest, word, words) ==
    IF rest = <<>> THEN (IF word = <<>> THEN words ELSE Append(words, word))
    ELSE IF Head(rest) = " "
         THEN SplitAcc(Tail(rest), <<>>, IF word = <<>> THEN words ELSE Append(words, word))
    ELSE SplitAcc(Tail(rest), Append(word, Head(rest)), words)

Split(text) == SplitAcc(text, <<>>, <<>>)

\* lines 138 and 151: the only sub-question of the fallback
QuerySubQuestion(q) == [question |-> q, priority |-> 5, keywords |-> Split(q)]

\* lines 148-154
FallbackPlan(q) ==
    [main_topic |-> q,
     sub_questions |-> <<QuerySubQuestion(q)>>,
     estimated_sources_needed |-> 6]

PlanResearchParseOnly(q, outcome) ==
    IF outcome.raised \/ SafeLoadJson(outcome.text).kind # "dict" THEN FallbackPlan(q)
    ELSE LET f == SafeLoadJson(outcome.text).fields
         IN  [main_topic |-> IF HasKey(f, "main_topic") THEN ValueOf(Get(f, "main_topic")) ELSE q,
              sub_questions |-> IF HasKey(f, "sub_questions")
                                THEN ValueOf(Get(f, "sub_questions")) ELSE <<>>,
              estimated_sources_needed |->
                  IF HasKey(f, "estimated_sources_needed")
                  THEN ValueOf(Get(f, "estimated_sources_needed")) ELSE 0]

\* plan_research, given the outcome of its judgment call; keys of the reply
\* other than the three of the plan are left out
PlanResearch(q, outcome) ==
    IF outcome.raised THEN FallbackPlan(q)
    ELSE LET parsed == SafeLoadJson(outcome.text)
             f == parsed.fields
         IN  IF parsed.kind # "dict" THEN FallbackPlan(q)
             ELSE [main_topic |->
                       IF HasKey(f, "main_topic") THEN ValueOf(Get(f, "main_topic")) ELSE q,
                   sub_questions |->
                       IF HasKey(f, "sub_questions")
                          /\ ValueOf(Get(f, "sub_questions")).ty = "list"
                       THEN ValueOf(Get(f, "sub_questions")).items
                       ELSE <<QuerySubQuestion(q)>>,
                   estimated_sources_needed |->
                       IF HasKey(f, "estimated_sources_needed")
                       THEN ValueOf(Get(f, "estimated_sources_needed"))
                       ELSE 6]

\* the queries plan_research is called with and the replies its judgment call is
\* taken to give
PlanQueries ==
    { <<>>, <<"a", "i">>, <<"a", "i", " ", "j">>, <<" ", "a", " ", " ", "j", "o", " ">> }
PlannedQuestion == [question |-> <<"s", "q">>, priority |-> 1, keywords |-> <<<<"s", "q">>>>]
PlanReplies ==
    { <<>>,
      <<Word, Word>>,
      <<Num>>,
      <<LBrack, LBrace, ValueField("main_topic", StrVal(<<"t">>)), RBrace, RBrack>>,
      <<Word, LBrace, Word, RBrace>>,
      <<RBrace, LBrace>>,
      <<LBrace, RBrace>>,
      <<LBrace, ValueField("sub_questions", StrVal(<<"s", "q">>)), RBrace>>,
      <<LBrace, ValueField("main_topic", StrVal(<<"t">>)),
        ValueField("sub_questions", ListVal(<<PlannedQuestion>>)),
        ValueField("estimated_sources_needed", IntVal(4)), RBrace>>,
      <<Word, LBrace, ValueField("sub_questions", ListVal(<<PlannedQuestion, PlannedQuestion>>)),
        RBrace, Word>> }
PlanOutcomes == {Raised} \cup {Reply(t) : t \in PlanReplies}

----------------------------------------------------------------------------
(* ValidationAgent (src/agents/research_agents.py) *)

\* a JSON number with a fraction, in tenths
FloatVal(tenths) == [ty |-> "float", n |-> tenths]
BoolVal(b) == [ty |-> "bool", b |-> b]

\* the truth value Python gives a parsed JSON value
Truthy(v) ==
    CASE v.ty = "null" -> FALSE
      [] v.ty = "bool" -> v.b
      [] v.ty \in {"int", "float"} -> v.n # 0
      [] v.ty = "str" -> v.s # <<>>
      [] v.ty = "list" -> v.items # <<>>

\* parsed.get(k1) or parsed.get(k2) or default
GetOr(f, k1, k2, default) ==
    IF HasKey(f, k1) /\ Truthy(ValueOf(Get(f, k1))) THEN ValueOf(Get(f, k1))
    ELSE IF HasKey(f, k2) /\ Truthy(ValueOf(Get(f, k2))) THEN ValueOf(Get(f, k2))
    ELSE default

Digits == <<"0", "1", "2", "3", "4", "5", "6", "7", "8", "9">>
IsDigit(c) == \E d \in 1..Len(Digits) : Digits[d] = c
DigitOf(c) == (CHOOSE d \in 1..Len(Digits) : Digits[d] = c) - 1

RECURSIVE DigitsValue(_, _)
DigitsValue(cs, acc) ==
    IF cs = <<>> THEN acc ELSE DigitsValue(Tail(cs), 10 * acc + DigitOf(Head(cs)))

\* x // 10 towards zero
TruncTenths(n) == IF n >= 0 THEN n \div 10 ELSE -((-n) \div 10)

\* int(v): ok = FALSE is the ValueError or TypeError it raises
IntOf(v) ==
    CASE v.ty = "int" -> [ok |-> TRUE, n |-> v.n]
      [] v.ty = "bool" -> [ok |-> TRUE, n |-> IF v.b THEN 1 ELSE 0]
      [] v.ty = "float" -> [ok |-> TRUE, n |-> TruncTenths(v.n)]
      [] v.ty = "str" ->
            LET neg == v.s # <<>> /\ Head(v.s) = "-"
                ds == IF neg THEN Tail(v.s) ELSE v.s
            IN  IF ds # <<>> /\ \A i \in 1..Len(ds) : IsDigit(ds[i])
                THEN [ok |-> TRUE, n |-> IF neg THEN -DigitsValue(ds, 0) ELSE DigitsValue(ds, 0)]
                ELSE [ok |-> FALSE, n |-> 0]
      [] OTHER -> [ok |-> FALSE, n |-> 0]

\* lines 332-334
ValidationFallback ==
    [status |-> StrVal(<<"needs_review">>), confidence |-> 70, gaps |-> <<>>]

\* validate, given the outcome of its judgment call
Validate(outcome) ==
    IF outcome.raised THEN ValidationFallback
    ELSE LET parsed == SafeLoadJson(outcome.text)
             f == parsed.fields
             status == GetOr(f, "status", "validation_status", StrVal(<<"needs_review">>))
             confidence == GetOr(f, "confidence", "confidence_score", IntVal(70))
             gaps == IF HasKey(f, "gaps") /\ Truthy(ValueOf(Get(f, "gaps")))
                     THEN (IF ValueOf(Get(f, "gaps")).ty = "list"
                           THEN ValueOf(Get(f, "gaps")).items
                           ELSE <<ValueOf(Get(f, "gaps"))>>)
                     ELSE <<>>
         IN  IF parsed.kind # "dict" \/ ~IntOf(confidence).ok THEN ValidationFallback
             ELSE [status |-> status, confidence |-> IntOf(confidence).n, gaps |-> gaps]

\* the confidences a reply is taken to carry, and the replies
ConfidenceValues ==
    { IntVal(0), IntVal(50), IntVal(100), IntVal(150), IntVal(0 - 5),
      FloatVal(855), FloatVal(1009), FloatVal(0 - 5),
      StrVal(<<"9", "0">>), StrVal(<<"-", "2", "0">>), StrVal(<<"h", "i">>), StrVal(<<>>),
      BoolVal(TRUE), NullVal, ListVal(<<IntVal(50)>>) }
ValidateReplies ==
    { <<>>, <<Word>>, <<Num>>, <<LBrace, RBrace>>,
      <<LBrace, ValueField("status", StrVal(<<"validated">>)),
        ValueField("gaps", StrVal(<<"g">>)), RBrace>>,
      <<LBrace, ValueField("confidence", IntVal(0)),
        ValueField("confidence_score", IntVal(120)), RBrace>> }
    \cup {<<LBrace, ValueField("confidence", c), RBrace>> : c \in ConfidenceValues}
    \cup {<<Word, LBrace, ValueField("validation_status", StrVal(<<"ok">>)),
            ValueField("confidence_score", c),
            ValueField("gaps", ListVal(<<StrVal(<<"g">>)>>)), RBrace>> : c \in ConfidenceValues}
ValidateOutcomes == {Raised} \cup {Reply(t) : t \in ValidateReplies}

----------------------------------------------------------------------------
(* WebSearchTool (src/tools/web_search_tool.py) *)

\* key=lambda s: s.get('relevance_score', 0)
SortKey(s) == IF s.relevance_score = NoScore THEN 0 ELSE s.relevance_score

RECURSIVE InsertRankedBeforeTies(_, _)
InsertRankedBeforeTies(ranked, x) ==
    IF ranked = <<>> THEN <<x>>
    ELSE IF SortKey(ranked[1]) > SortKey(x)
         THEN <<ranked[1]>> \o InsertRankedBeforeTies(Tail(ranked), x)
    ELSE <<x>> \o ranked

\* x goes behind every element whose key is at least its own
RECURSIVE InsertRanked(_, _)
InsertRanked(ranked, x) ==
    IF ranked = <<>> THEN <<x>>
    ELSE IF SortKey(ranked[1]) >= SortKey(x)
         THEN <<ranked[1]>> \o InsertRanked(Tail(ranked), x)
    ELSE <<x>> \o ranked

RECURSIVE RankInto(_, _)
RankInto(ranked, rest) ==
    IF rest = <<>> THEN ranked
    ELSE RankInto(InsertRanked(ranked, rest[1]), Tail(rest))

RankResultsTruncated(sources) == Take(RankInto(<<>>, sources), 3)

RankResultsTiesReversed(sources) ==
    RankInto(<<>>, [i \in 1..Len(sources) |-> sources[Len(sources) + 1 - i]])

\* rank_results: sorted(sources, key=..., reverse=True), a stable sort
RankResults(sources) == RankInto(<<>>, sources)

\* the sources handed to a single call of rank_results: up to MaxRankLen of
\* them, with or without a relevance_score, equal ones included
MaxRankLen == 3
RankSources == [url : {"u1", "u2", "u3"}, relevance_score : {NoScore, 0, 4, 9}]
RankInputs == UNION {[1..n -> RankSources] : n \in 0..MaxRankLen}

\* the backend query of search, search_news and search_academic
BackendQuery(question, strategy) ==
    IF strategy = "academic" THEN question \o " filetype:pdf"
    ELSE IF strategy = "news" THEN question \o " site:news"
    ELSE question

----------------------------------------------------------------------------
(* ParallelResearchCoordinator (src/agents/parallel_agents.py) *)

NoParResult == [sources |-> <<>>, research_log |-> <<>>, total_sources |-> -1,
                parallel_workers |-> 0, sub_questions_processed |-> -1]

Tasks == 1..Len(par_questions)

Settled(i) == par_task[i].st \in {"finished", "failed"}

\* the tasks a worker thread is executing
Executing == {i \in Tasks : par_task[i].st \in {"searching", "storing"}}

\* an outcome of the backend search of one task: it raises e, where str(e) is
\* the message of e or empty for an exception made without arguments, or it
\* returns results
ItemC == [url |-> "uc", title |-> "tc", content |-> "cc", relevance_score |-> 9]
ItemD == [url |-> "ud", title |-> "td", content |-> "cd", relevance_score |-> 4]
ParSearchOutcomes ==
    {[raised |-> TRUE, error |-> m, results |-> <<>>] : m \in {"backend error", ""}} \cup
    {[raised |-> FALSE, error |-> "", results |-> r] : r \in {<<>>, <<ItemD, ItemC>>}}

\* the results the backend returns for a query are pages found for that query
ResultsFor(q, found) ==
    [k \in 1..Len(found) |-> [found[k] EXCEPT !.url = q \o "/" \o @]]

\* executor.submit for every sub-question
ParSubmit ==
    /\ par_pc = "submit"
    /\ par_task' = [i \in Tasks |-> [st |-> "queued", sources |-> <<>>, stored |-> 0,
                                     entry_id |-> 0, error |-> ""]]
    /\ par_search_calls' = [i \in Tasks |-> <<>>]
    /\ par_pc' = "submitted"
    /\ UNCHANGED <<notPar, memories, par_questions, par_workers, par_done, par_snapshot,
                   par_collected, par_all_sources, par_research_log, par_log_task, par_result,
                   async_result>>

FreeWorkerAlways == TRUE

\* a free worker takes the oldest queued task
FreeWorker == Cardinality(Executing) < par_workers

TaskStart(i) ==
    /\ par_pc \in {"submitted", "collecting"}
    /\ par_task[i].st = "queued"
    /\ \A j \in 1..(i - 1) : par_task[j].st # "queued"
    /\ FreeWorker
    /\ par_task' = [par_task EXCEPT ![i].st = "searching"]
    /\ UNCHANGED <<notPar, memories, par_pc, par_questions, par_workers, par_done,
                   par_snapshot, par_collected, par_all_sources, par_research_log, par_log_task,
                   par_search_calls, par_result,
                   async_result>>

\* _research_single_question, lines 115-132: the search chosen by the strategy
TaskSearch(i) ==
    /\ par_pc \in {"submitted", "collecting"}
    /\ par_task[i].st = "searching"
    /\ \E r \in ParSearchOutcomes :
          /\ par_search_calls' = [par_search_calls EXCEPT ![i] =
                 Append(@, BackendQuery(par_questions[i].question,
                                        par_questions[i].search_strategy))]
          /\ IF r.raised
             THEN /\ par_task' = [par_task EXCEPT ![i].st = "failed", ![i].error = r.error]
                  /\ par_done' = Append(par_done, i)
             ELSE /\ par_task' = [par_task EXCEPT ![i].st = "storing",
                                                  ![i].sources =
                                     ResultsFor(BackendQuery(par_questions[i].question,
                                                    par_questions[i].search_strategy),
                                                r.results)]
                  /\ UNCHANGED par_done
    /\ UNCHANGED <<notPar, memories, par_pc, par_questions, par_workers, par_snapshot,
                   par_collected, par_all_sources, par_research_log, par_log_task, par_result,
                   async_result>>

TaskMetadataDefaultStrategy(i) ==
    [sub_question |-> par_questions[i].question,
     strategy |-> "general",
     session_id |-> "par_session"]

\* lines 141-145: the metadata of the records of task i
TaskMetadata(i) ==
    [sub_question |-> par_questions[i].question,
     strategy |-> par_questions[i].search_strategy,
     session_id |-> "par_session"]

\* memory_bank.store_source for each source of task i, in order
RECURSIVE StoreTaskSources(_, _, _)
StoreTaskSources(mem, sources, i) ==
    IF sources = <<>> THEN mem
    ELSE StoreTaskSources(
             StoreSource(mem, sources[1].url, sources[1].title, sources[1].content,
                         IF sources[1].relevance_score = NoScore THEN DefaultRelevance
                         ELSE sources[1].relevance_score,
                         TaskMetadata(i)),
             Tail(sources), i)

\* lines 135-146: the sources of the task are stored in the memory bank, with
\* no step of another task in between (TaskStoreEntry and TaskStoreAppend are
\* the steps of one store_memory call)
TaskStore(i) ==
    /\ par_pc \in {"submitted", "collecting"}
    /\ par_task[i].st = "storing"
    /\ par_task[i].stored < Len(par_task[i].sources)
    /\ memories' = StoreTaskSources(memories, par_task[i].sources, i)
    /\ par_task' = [par_task EXCEPT ![i].stored = Len(par_task[i].sources)]
    /\ UNCHANGED <<notPar, par_pc, par_questions, par_workers, par_done, par_snapshot,
                   par_collected, par_all_sources, par_research_log, par_log_task, par_search_calls,
                   par_result,
                   async_result>>

\* store_memory of the next source of task i, line 12: the entry is built with
\* id = len(self.memories) + 1
TaskStoreEntry(i) ==
    /\ par_pc \in {"submitted", "collecting"}
    /\ par_task[i].st = "storing"
    /\ par_task[i].stored < Len(par_task[i].sources)
    /\ par_task[i].entry_id = 0
    /\ par_task' = [par_task EXCEPT ![i].entry_id = Len(memories) + 1]
    /\ UNCHANGED <<notPar, memories, par_pc, par_questions, par_workers, par_done, par_snapshot,
                   par_collected, par_all_sources, par_research_log, par_log_task, par_search_calls,
                   par_result,
                   async_result>>

\* line 19: self.memories.append(entry), with the id the entry was built with
TaskStoreAppend(i) ==
    /\ par_pc \in {"submitted", "collecting"}
    /\ par_task[i].st = "storing"
    /\ par_task[i].entry_id # 0
    /\ LET source == par_task[i].sources[par_task[i].stored + 1]
           entry == StoreTaskSources(<<>>, <<source>>, i)[1]
       IN  memories' = Append(memories, [entry EXCEPT !.id = par_task[i].entry_id])
    /\ par_task' = [par_task EXCEPT ![i].stored = @ + 1, ![i].entry_id = 0]
    /\ UNCHANGED <<notPar, par_pc, par_questions, par_workers, par_done, par_snapshot,
                   par_collected, par_all_sources, par_research_log, par_log_task, par_search_calls,
                   par_result,
                   async_result>>

\* lines 148-152: the task returns and its future is finished
TaskReturn(i) ==
    /\ par_pc \in {"submitted", "collecting"}
    /\ par_task[i].st = "storing"
    /\ par_task[i].stored = Len(par_task[i].sources)
    /\ par_task' = [par_task EXCEPT ![i].st = "finished"]
    /\ par_done' = Append(par_done, i)
    /\ UNCHANGED <<notPar, memories, par_pc, par_questions, par_workers, par_snapshot,
                   par_collected, par_all_sources, par_research_log, par_log_task, par_search_calls,
                   par_result,
                   async_result>>

\* as_completed is entered: the futures already settled are yielded first
ParAsCompleted ==
    /\ par_pc = "submitted"
    /\ par_snapshot' = {i \in Tasks : Settled(i)}
    /\ par_pc' = "collecting"
    /\ UNCHANGED <<notPar, memories, par_questions, par_workers, par_task, par_done,
                   par_collected, par_all_sources, par_research_log, par_log_task, par_search_calls,
                   par_result,
                   async_result>>

\* the futures as_completed may yield next: any of those settled when it was
\* entered (it holds them in a set), then the others in the order they settle
RECURSIVE FirstLater(_)
FirstLater(done) ==
    IF done = <<>> THEN {}
    ELSE IF done[1] \notin par_snapshot /\ done[1] \notin par_collected THEN {done[1]}
    ELSE FirstLater(Tail(done))

NextYieldedAgain == {i \in Tasks : Settled(i)}

NextYieldedInSubmissionOrder ==
    LET ready == {i \in Tasks \ par_collected : Settled(i)}
    IN  {i \in ready : \A j \in ready : i <= j}

NextYielded ==
    IF par_snapshot \ par_collected # {} THEN par_snapshot \ par_collected
    ELSE FirstLater(par_done)

CompletedEntry(i) ==
    [question |-> par_questions[i].question,
     sources_found |-> Len(par_task[i].sources),
     status |-> "completed"]

FailedEntryAsCompleted(i) ==
    [question |-> par_questions[i].question,
     sources_found |-> 0,
     status |-> "completed"]

FailedEntry(i) ==
    [question |-> par_questions[i].question,
     sources_found |-> 0,
     status |-> "failed",
     error |-> par_task[i].error]

\* lines 63-71: future.result() returns
ParCollectCompleted ==
    /\ par_pc = "collecting"
    /\ \E i \in NextYielded :
          /\ par_task[i].st = "finished"
          /\ par_all_sources' = par_all_sources \o par_task[i].sources
          /\ par_research_log' = Append(par_research_log, CompletedEntry(i))
          /\ par_log_task' = Append(par_log_task, i)
          /\ par_collected' = par_collected \cup {i}
    /\ UNCHANGED <<notPar, memories, par_pc, par_questions, par_workers, par_task,
                   par_done, par_snapshot, par_search_calls, par_result,
                   async_result>>

\* lines 73-80: future.result() raises the task's exception
ParCollectFailed ==
    /\ par_pc = "collecting"
    /\ \E i \in NextYielded :
          /\ par_task[i].st = "failed"
          /\ par_research_log' = Append(par_research_log, FailedEntry(i))
          /\ par_log_task' = Append(par_log_task, i)
          /\ par_collected' = par_collected \cup {i}
    /\ UNCHANGED <<notPar, memories, par_pc, par_questions, par_workers, par_task,
                   par_done, par_snapshot, par_all_sources, par_search_calls, par_result,
                   async_result>>

\* lines 82-96: every future was yielded; rank once and return
ParReturn ==
    /\ par_pc = "collecting"
    /\ par_collected = Tasks
    /\ LET ranked_sources == RankResults(par_all_sources)
       IN  par_result' = [sources |-> ranked_sources,
                          research_log |-> par_research_log,
                          total_sources |-> Len(ranked_sources),
                          parallel_workers |-> par_workers,
                          sub_questions_processed |-> Len(par_questions)]
    /\ par_pc' = "returned"
    /\ UNCHANGED <<notPar, memories, par_questions, par_workers, par_task, par_done,
                   par_snapshot, par_collected, par_all_sources, par_research_log, par_log_task,
                   par_search_calls, async_result>>

----------------------------------------------------------------------------
(* AsyncParallelResearchCoordinator (src/agents/parallel_agents.py), run on   *)
(* the sub-questions of parallel_research with the search of each task        *)
(* ending as it ended there                                                   *)

\* lines 255-267: the sources of task i stored by _research_single_question_async
RECURSIVE StoreAsyncSources(_, _, _)
StoreAsyncSources(mem, sources, i) ==
    IF sources = <<>> THEN mem
    ELSE StoreAsyncSources(
             StoreSource(mem, sources[1].url, sources[1].title, sources[1].content,
                         IF sources[1].relevance_score = NoScore THEN DefaultRelevance
                         ELSE sources[1].relevance_score,
                         [sub_question |-> par_questions[i].question,
                          strategy |-> par_questions[i].search_strategy,
                          session_id |-> "par_session",
                          execution |-> "async"]),
             Tail(sources), i)

\* the tasks whose search returned store their sources in the order they resume
RECURSIVE StoreAsyncTasks(_, _)
StoreAsyncTasks(mem, order) ==
    IF order = <<>> THEN mem
    ELSE StoreAsyncTasks(StoreAsyncSources(mem, par_task[order[1]].sources, order[1]),
                         Tail(order))

Orders(S) ==
    {o \in [1..Cardinality(S) -> S] : \A a, b \in 1..Cardinality(S) : o[a] = o[b] => a = b}

\* lines 193-197: the entry of a task that gather returned as an exception
AsyncFailedEntry(i) ==
    [question |-> par_questions[i].question,
     status |-> "failed",
     error |-> par_task[i].error]

\* lines 200-204
AsyncCompletedEntry(i) ==
    [question |-> par_questions[i].question,
     sources_found |-> Len(par_task[i].sources),
     status |-> "completed"]

\* lines 190-204: the results of gather, processed in the order of sub_questions
RECURSIVE AsyncSources(_)
AsyncSources(n) ==
    IF n = 0 THEN <<>>
    ELSE AsyncSources(n - 1) \o
         (IF par_task[n].st = "failed" THEN <<>> ELSE par_task[n].sources)

AsyncLog ==
    [i \in Tasks |-> IF par_task[i].st = "failed" THEN AsyncFailedEntry(i)
                     ELSE AsyncCompletedEntry(i)]

NoAsyncResult == [sources |-> <<>>, research_log |-> <<>>, total_sources |-> -1,
                  execution_mode |-> "none", sub_questions_processed |-> -1]

\* parallel_research_async, lines 177-220
ParallelResearchAsync ==
    /\ par_pc = "returned"
    /\ async_result = NoAsyncResult
    /\ \E order \in Orders({i \in Tasks : par_task[i].st = "finished"}) :
          memories' = StoreAsyncTasks(memories, order)
    /\ LET ranked_sources == RankResults(AsyncSources(Len(par_questions)))
       IN  async_result' = [sources |-> ranked_sources,
                            research_log |-> AsyncLog,
                            total_sources |-> Len(ranked_sources),
                            execution_mode |-> "async",
                            sub_questions_processed |-> Len(par_questions)]
    /\ UNCHANGED <<notPar, par_pc, par_questions, par_workers, par_task, par_done,
                   par_snapshot, par_collected, par_all_sources, par_research_log, par_log_task,
                   par_search_calls, par_result>>

\* the arguments parallel_research and its coordinator are given
MaxParQ == 3
MaxWorkers == 2
\* the i-th sub-question of the plan handed over: the strategies alternate, and
\* the fourth question repeats the text of the first
ParSubQuestion(i) ==
    [question |-> IF i % 3 = 1 THEN "pa" ELSE IF i % 3 = 2 THEN "pb" ELSE "pc",
     search_strategy |-> IF i % 3 = 1 THEN "general"
                         ELSE IF i % 3 = 2 THEN "academic" ELSE "news"]
\* a sub-question whose question is empty, as the fallback plan of an empty
\* query has
EmptyParSubQuestion == [question |-> "", search_strategy |-> "general"]
ParPlans ==
    {[i \in 1..n |-> ParSubQuestion(i)] : n \in 0..MaxParQ}
    \cup {<<EmptyParSubQuestion>>, <<ParSubQuestion(2), EmptyParSubQuestion>>}


----------------------------------------------------------------------------
(* SessionManager (src/memory/memory_bank.py) *)

\* create_session: the new record replaces whatever the id held
CreateSession(ss, sid, q) ==
    (sid :> [id |-> sid, query |-> q, current_stage |-> "planning", outputs |-> <<>>])
    @@ ss

\* update_session: dict.update of the stored record
UpdateSession(ss, sid, data) == [ss EXCEPT ![sid] = data @@ @]

\* set_agent_output
SetAgentOutput(ss, sid, agent_name, output) ==
    IF sid \in DOMAIN ss
    THEN [ss EXCEPT ![sid] = [outputs |-> (agent_name :> output) @@ @.outputs] @@ @]
    ELSE ss

\* close_session
CloseSession(ss, sid, status) ==
    [ss EXCEPT ![sid] = [status |-> status, closed |-> TRUE] @@ @]

----------------------------------------------------------------------------
(* _Observability (src/observability/logger.py) *)

NoObsSession == [started |-> FALSE, status |-> None]

\* start_session
StartSession == [started |-> TRUE, status |-> None]

\* end_session
EndSession(obs, status) ==
    IF ~obs.started THEN obs ELSE [obs EXCEPT !.status = status]

----------------------------------------------------------------------------
(* ResearchOrchestrator (src/orchestrator.py) *)

AgentOf(stage) ==
    CASE stage = "planning" -> "QueryPlanner"
      [] stage = "research" -> "Researcher"
      [] stage = "synthesis" -> "Synthesizer"
      [] stage = "validation" -> "Validator"
      [] stage = "content_generation" -> "ContentGenerator"

StageAfterSkipsValidation(stage) ==
    CASE stage = "planning" -> "research"
      [] stage = "research" -> "synthesis"
      [] stage = "synthesis" -> "content_generation"
      [] stage = "validation" -> "content_generation"
      [] stage = "content_generation" -> "completed"

\* the current_stage each _stage_* method writes with update_session
StageAfter(stage) ==
    CASE stage = "planning" -> "research"
      [] stage = "research" -> "synthesis"
      [] stage = "synthesis" -> "validation"
      [] stage = "validation" -> "content_generation"
      [] stage = "content_generation" -> "completed"

\* lines 83-109: the stage method conduct_research calls after the one of stage
StageCalledAfter(stage) ==
    CASE stage = "planning" -> "research"
      [] stage = "research" -> "synthesis"
      [] stage = "synthesis" -> "validation"
      [] stage = "validation" -> "content_generation"

NoResults == [session_id |-> None]

\* what the agent of a stage can return, given the outputs of the stages before
PlanOf(q) ==
    [main_topic |-> q,
     sub_questions |-> <<[question |-> q, priority |-> 5]>>,
     estimated_sources_needed |-> 6]

\* researcher.research: one turn finds two sources for the sub-question, the
\* Gap Analyzer then asks for nothing more
ResearchFound == NormalizeAll(<<ItemB, ItemA>>)
ResearchOf(plan) ==
    [sources |-> ResearchFound,
     research_log |-> <<[iteration |-> 1,
                         queries |-> <<plan.sub_questions[1].question>>,
                         sources_found |-> Len(ResearchFound)]>>,
     iterations_completed |-> 1,
     total_sources |-> Len(ResearchFound)]

\* the keys of research_results that _stage_research (lines 183-188) and the
\* result assembly of conduct_research (lines 97-131) subscript; a missing one
\* is a KeyError
ResearchKeysRead == {"sources", "total_sources", "iterations_completed"}
ResearchResultReadable(research_results) == ResearchKeysRead \subseteq DOMAIN research_results

SynthesisOf(research_results) ==
    [synthesis |-> "synthesis text",
     sources_used |-> Len(research_results.sources),
     synthesis_length |-> 2]

ValidationReplies ==
    {[status |-> "validated", confidence |-> 90, gaps |-> <<>>],
     [status |-> "needs_review", confidence |-> 70, gaps |-> <<"gap">>]}

GenerationOf(synthesis, sources) ==
    [content |-> "final content", word_count |-> 2,
     citations |-> [i \in 1..Len(Take(sources, 6)) |-> sources[i].url],
     format |-> "report"]

AgentResults(stage) ==
    CASE stage = "planning" -> {PlanOf(query)}
      [] stage = "research" -> {ResearchOf(stage_out["planning"])}
      [] stage = "synthesis" -> {SynthesisOf(stage_out["research"])}
      [] stage = "validation" -> ValidationReplies
      [] stage = "content_generation" ->
            {GenerationOf(stage_out["synthesis"].synthesis, stage_out["research"].sources)}

\* the memory bank after the agent of a stage ran: the researcher stores every
\* source it finds
AgentMemory(mem, stage, out) ==
    IF stage = "research"
    THEN StoreFound(mem, out.sources, 0, out.research_log[1].queries[1])
    ELSE mem

\* the data of the update_session call of each _stage_* method
UpdateData(stage, out) ==
    [current_stage |-> StageAfter(stage)] @@
    CASE stage = "planning" -> [sub_queries |-> out.sub_questions]
      [] stage = "research" -> [sources_found |-> out.sources,
                                research_iterations |-> out.iterations_completed]
      [] stage = "synthesis" -> <<>>
      [] stage = "validation" -> [validation_results |-> out]
      [] stage = "content_generation" -> [status |-> "completed"]

\* _stage_research, lines 188-198: the first five sources
RECURSIVE StoreTopSources(_, _, _)
StoreTopSources(mem, sources, sid) ==
    IF sources = <<>> THEN mem
    ELSE StoreTopSources(
             StoreMemory(mem, sources[1].content, "source", sources[1].relevance_score,
                         [url |-> sources[1].url, title |-> sources[1].title,
                          session_id |-> sid]),
             Tail(sources), sid)

\* the store_memory calls of each _stage_* method
StageMemory(mem, stage, out) ==
    CASE stage = "planning" ->
            StoreMemory(mem, "Research plan for: " \o query, "planning", 8,
                        [plan |-> out, session_id |-> session_id])
      [] stage = "research" -> StoreTopSources(mem, Take(out.sources, 5), session_id)
      [] stage = "synthesis" ->
            StoreMemory(mem, out.synthesis, "synthesis", 9,
                        [session_id |-> session_id, query |-> query])
      [] stage = "validation" ->
            IF out.gaps # <<>>
            THEN StoreMemory(mem, "Validation issues", "validation", 7,
                             [session_id |-> session_id])
            ELSE mem
      [] stage = "content_generation" ->
            StoreMemory(mem, out.content, "final_content", 10,
                        [session_id |-> session_id, format |-> "report",
                         word_count |-> out.word_count])

\* conduct_research is entered: lines 71-79
BeginConduct(q, sid, op) ==
    /\ obs_session' = StartSession
    /\ sessions' = CreateSession(sessions, sid, q)
    /\ session_id' = sid
    /\ query' = q
    /\ orch_op' = op
    /\ orch_stage' = "planning"
    /\ orch_pc' = "agent"
    /\ stage_out' = <<>>
    /\ results' = NoResults
    /\ agent_calls' = <<>>
    /\ stage_trace' = <<"planning">>
    /\ end_calls' = <<>>
    /\ raised_in' = "none"
    /\ runs' = runs + 1
    /\ UNCHANGED <<notOrch, memories>>

\* the bound on the operations started, the session ids and the queries in use
MaxRuns == 2
SessionIdPool == <<"s1", "s2">>
SessionIds == {SessionIdPool[i] : i \in 1..Len(SessionIdPool)}
Queries == {"q1", "q2"}

Quiescent == orch_pc \in {"idle", "returned", "raised"}

\* line 76: a fresh id, the first one of the pool that no session has
NewSessionId ==
    SessionIdPool[CHOOSE i \in 1..Len(SessionIdPool) :
                      /\ SessionIdPool[i] \notin DOMAIN sessions
                      /\ \A j \in 1..(i - 1) : SessionIdPool[j] \in DOMAIN sessions]

\* conduct_research(query): session_id is None
ConductResearchNew(q) ==
    /\ Quiescent
    /\ runs < MaxRuns
    /\ SessionIds \ DOMAIN sessions # {}
    /\ BeginConduct(q, NewSessionId, "conduct")

\* conduct_research(query, session_id=sid) with the id of a stored session
ConductResearchWithId(q, sid) ==
    /\ Quiescent
    /\ runs < MaxRuns
    /\ sid \in DOMAIN sessions
    /\ BeginConduct(q, sid, "conduct")

\* resume_session, lines 307-310: no session under the id
ResumeMissing(sid) ==
    /\ Quiescent
    /\ runs < MaxRuns
    /\ sid \notin DOMAIN sessions
    /\ orch_op' = "resume"
    /\ orch_pc' = "raised"
    /\ raised_in' = "resume_session"
    /\ session_id' = sid
    /\ results' = NoResults
    /\ agent_calls' = <<>>
    /\ stage_trace' = <<>>
    /\ end_calls' = <<>>
    /\ runs' = runs + 1
    /\ UNCHANGED <<notOrch, memories, sessions, obs_session, orch_stage, query, stage_out>>

AlreadyCompletedNever(session) == FALSE

\* resume_session, line 320: current_stage == "completed"
AlreadyCompleted(session) == session.current_stage = "completed"

\* resume_session, lines 320-322: the session is completed and is returned
ResumeCompleted(sid) ==
    /\ Quiescent
    /\ runs < MaxRuns
    /\ sid \in DOMAIN sessions
    /\ AlreadyCompleted(sessions[sid])
    /\ orch_op' = "resume"
    /\ orch_pc' = "returned"
    /\ raised_in' = "none"
    /\ session_id' = sid
    /\ query' = sessions[sid].query
    /\ results' = sessions[sid]
    /\ agent_calls' = <<>>
    /\ stage_trace' = <<>>
    /\ end_calls' = <<>>
    /\ runs' = runs + 1
    /\ UNCHANGED <<notOrch, memories, sessions, obs_session, orch_stage, stage_out>>

ResumeQueryIsId(sid) == sid

\* resume_session, line 315: query = session["query"]
ResumeQuery(sid) == sessions[sid].query

\* resume_session, lines 324-327: any other stage restarts the research
ResumeRestart(sid) ==
    /\ Quiescent
    /\ runs < MaxRuns
    /\ sid \in DOMAIN sessions
    /\ ~AlreadyCompleted(sessions[sid])
    /\ BeginConduct(ResumeQuery(sid), sid, "resume")

\* the status the except clause of conduct_research gives to end_session
ExceptStatusCompleted == "completed"
ExceptStatus == "failed"

\* lines 143-146: end the observability session, re-raise
Propagate(where) ==
    /\ obs_session' = EndSession(obs_session, ExceptStatus)
    /\ end_calls' = Append(end_calls, ExceptStatus)
    /\ raised_in' = where
    /\ orch_pc' = "raised"

\* the agent call of the current stage returns
StageAgentReturns ==
    /\ orch_pc = "agent"
    /\ \E out \in AgentResults(orch_stage) :
          /\ stage_out' = (orch_stage :> out) @@ stage_out
          /\ memories' = AgentMemory(memories, orch_stage, out)
    /\ agent_calls' = Append(agent_calls, AgentOf(orch_stage))
    /\ orch_pc' = "update"
    /\ UNCHANGED <<notOrch, sessions, obs_session, orch_stage, orch_op, session_id, query,
                   results, stage_trace, end_calls, raised_in, runs>>

\* the agent call of the current stage raises.  The agents catch the failures
\* of their judgment calls; what escapes them is an error outside their try
\* blocks, such as s.get on a planned sub-question that is no dict (research,
\* line 204) or the concatenation of a url that is no text (validate, line 316)
StageAgentRaises ==
    /\ orch_pc = "agent"
    /\ agent_calls' = Append(agent_calls, AgentOf(orch_stage))
    /\ Propagate(orch_stage)
    /\ UNCHANGED <<notOrch, memories, sessions, orch_stage, orch_op, session_id, query,
                   stage_out, results, stage_trace, runs>>

\* session_manager.update_session of the current stage
StageUpdate ==
    /\ orch_pc = "update"
    /\ sessions' = UpdateSession(sessions, session_id,
                                 UpdateData(orch_stage, stage_out[orch_stage]))
    /\ stage_trace' = Append(stage_trace, StageAfter(orch_stage))
    /\ orch_pc' = "store"
    /\ UNCHANGED <<notOrch, memories, obs_session, orch_stage, orch_op, session_id, query,
                   stage_out, results, agent_calls, end_calls, raised_in, runs>>

\* memory_bank.store_memory of the current stage
StageStore ==
    /\ orch_pc = "store"
    /\ memories' = StageMemory(memories, orch_stage, stage_out[orch_stage])
    /\ orch_pc' = "output"
    /\ UNCHANGED <<notOrch, sessions, obs_session, orch_stage, orch_op, session_id, query,
                   stage_out, results, agent_calls, stage_trace, end_calls, raised_in,
                   runs>>

\* session_manager.set_agent_output; the stage method returns, the next is called
StageOutput ==
    /\ orch_pc = "output"
    /\ sessions' = SetAgentOutput(sessions, session_id, AgentOf(orch_stage),
                                  stage_out[orch_stage])
    /\ IF orch_stage = "content_generation"
       THEN orch_pc' = "finalize" /\ UNCHANGED orch_stage
       ELSE orch_pc' = "agent" /\ orch_stage' = StageCalledAfter(orch_stage)
    /\ UNCHANGED <<notOrch, memories, obs_session, orch_op, session_id, query, stage_out,
                   results, agent_calls, stage_trace, end_calls, raised_in, runs>>

\* lines 112-141: the duration, store_research_session, close_session,
\* end_session("completed"), the results
FinalizeReturns ==
    /\ orch_pc = "finalize"
    /\ LET session_data == [duration |-> 1] @@ sessions[session_id]
           mem == StoreMemory(memories, "session", "session", 10,
                              [session |-> session_data])
       IN  /\ memories' = mem
           /\ sessions' = CloseSession([sessions EXCEPT ![session_id] = session_data],
                                       session_id, "completed")
           /\ results' = [session_id |-> session_id,
                          query |-> query,
                          plan |-> stage_out["planning"],
                          research_summary |->
                              [total_sources |-> stage_out["research"].total_sources,
                               iterations |-> stage_out["research"].iterations_completed],
                          synthesis |-> stage_out["synthesis"].synthesis,
                          validation |-> stage_out["validation"],
                          final_content |-> stage_out["content_generation"],
                          memory_stats |-> [total_memories |-> Len(mem)]]
    /\ obs_session' = EndSession(obs_session, "completed")
    /\ end_calls' = Append(end_calls, "completed")
    /\ orch_pc' = "returned"
    /\ UNCHANGED <<notOrch, orch_stage, orch_op, session_id, query, stage_out,
                   agent_calls, stage_trace, raised_in, runs>>

\* lines 113-115: time.strptime rejects a created_at that has no microseconds
FinalizeRaises ==
    /\ orch_pc = "finalize"
    /\ Propagate("finalize")
    /\ UNCHANGED <<notOrch, memories, sessions, orch_stage, orch_op, session_id, query,
                   stage_out, results, agent_calls, stage_trace, runs>>

----------------------------------------------------------------------------
(* The pipeline with the agents run on the outcomes of their upstream calls *)

\* a text as a string and as its sequence of characters
RECURSIVE Text(_)
Text(chars) == IF chars = <<>> THEN "" ELSE Head(chars) \o Text(Tail(chars))
QueryChars(q) == IF q = "q1" THEN <<"q", "1">> ELSE <<"q", "2">>

\* a reply of plain text: out or ""
TextOutcomes == {Raised, [raised |-> FALSE, text |-> <<"o", "k", " ", "d", "o">>]}

\* an exception that leaves the agent
Escaped == [escaped |-> TRUE]

SynthesizeUncaught(sources, outcome) ==
    IF outcome.raised THEN Escaped
    ELSE [synthesis |-> outcome.text, sources_used |-> Len(sources),
          synthesis_length |-> Len(Split(outcome.text))]

\* synthesize, lines 292-304: compact_sources keeps every source
Synthesize(sources, outcome) ==
    IF outcome.raised
    THEN [synthesis |-> <<>>, sources_used |-> Len(sources), synthesis_length |-> 0]
    ELSE [synthesis |-> outcome.text, sources_used |-> Len(sources),
          synthesis_length |-> Len(Split(outcome.text))]

\* CitationFormatter.format_citations
FormatCitations(sources) ==
    [i \in 1..Len(sources) |->
        <<IF sources[i].title = "" THEN "Untitled" ELSE sources[i].title, " - ",
          sources[i].url>>]

\* generate, lines 345-356
Generate(synthesis, sources, outcome) ==
    IF outcome.raised
    THEN [content |-> <<>>, word_count |-> 0,
          citations |-> FormatCitations(Take(sources, 6)), format |-> "report"]
    ELSE [content |-> outcome.text, word_count |-> Len(Split(outcome.text)),
          citations |-> FormatCitations(Take(sources, 6)), format |-> "report"]

\* the outcomes of the judgment call of a stage
UpstreamOutcomes(stage) ==
    CASE stage = "planning" ->
            {Raised,
             Reply(<<LBrace, ValueField("sub_questions", ListVal(<<PlannedQuestion,
                     [question |-> <<>>, priority |-> 2, keywords |-> <<>>]>>)), RBrace>>)}
      [] stage = "validation" ->
            {Raised,
             Reply(<<LBrace, ValueField("status", StrVal(<<"validated">>)),
                     ValueField("confidence", IntVal(90)),
                     ValueField("gaps", ListVal(<<StrVal(<<"g">>)>>)), RBrace>>)}
      [] OTHER -> TextOutcomes

\* what the agent of a stage returns
AgentCall(stage, outcome) ==
    CASE stage = "planning" -> PlanResearch(QueryChars(query), outcome)
      [] stage = "synthesis" -> Synthesize(stage_out["research"].sources, outcome)
      [] stage = "validation" -> Validate(outcome)
      [] stage = "content_generation" ->
            Generate(stage_out["synthesis"].synthesis, stage_out["research"].sources, outcome)

\* the agent call of planning, synthesis, validation or generation; an exception
\* leaving the agent goes to the except clause of conduct_research
StageAgentCall ==
    /\ orch_pc = "agent"
    /\ orch_stage # "research"
    /\ agent_calls' = Append(agent_calls, AgentOf(orch_stage))
    /\ \E o \in UpstreamOutcomes(orch_stage) :
          LET out == AgentCall(orch_stage, o)
          IN  /\ failed_calls' = IF o.raised THEN Append(failed_calls, orch_stage)
                                 ELSE failed_calls
              /\ IF out = Escaped
                 THEN /\ Propagate(orch_stage)
                      /\ UNCHANGED stage_out
                 ELSE /\ stage_out' = (orch_stage :> out) @@ stage_out
                      /\ orch_pc' = "update"
                      /\ UNCHANGED <<obs_session, end_calls, raised_in>>
    /\ UNCHANGED <<loopVars, parVars, funVars, svcVars, lockVars, store_fails, research_tasks, memories, sessions, orch_stage, orch_op,
                   session_id, query, results, stage_trace, runs>>

\* _stage_research, lines 171-178: researcher.research is called with the
\* sub-questions of the plan
StageResearchCall ==
    /\ orch_pc = "agent"
    /\ orch_stage = "research"
    /\ lp_pc = "off"
    /\ agent_calls' = Append(agent_calls, AgentOf(orch_stage))
    /\ sub_questions' = [i \in 1..Len(stage_out["planning"].sub_questions) |->
                            SubQuestion(Text(stage_out["planning"].sub_questions[i].question))]
    /\ lp_pc' = "for"
    /\ iteration' = 0
    /\ queries' = <<>>
    /\ qi' = 1
    /\ iteration_sources' = <<>>
    /\ all_sources' = <<>>
    /\ research_log' = <<>>
    /\ llm_last' = NoCall
    /\ gap_calls' = 0
    /\ gap_args' = <<>>
    /\ search_calls' = <<>>
    /\ UNCHANGED <<parVars, funVars, svcVars, lockVars, store_fails, research_tasks, failed_calls, memories, sessions, obs_session, orch_pc,
                   orch_stage, orch_op, session_id, query, stage_out, results, stage_trace,
                   end_calls, raised_in, runs>>

\* researcher.research returns
StageResearchReturn ==
    /\ orch_pc = "agent"
    /\ orch_stage = "research"
    /\ LoopReturned
    /\ stage_out' = (orch_stage :> ResearchResult) @@ stage_out
    /\ lp_pc' = "off"
    /\ orch_pc' = "update"
    /\ UNCHANGED <<parVars, funVars, svcVars, lockVars, store_fails, research_tasks, failed_calls, memories, sub_questions, iteration, queries,
                   qi, iteration_sources, all_sources, research_log, llm_last, gap_calls, gap_args,
                   search_calls, sessions, obs_session, orch_stage, orch_op, session_id, query,
                   results, agent_calls, stage_trace, end_calls, raised_in, runs>>

----------------------------------------------------------------------------
(* SessionCheckpointService (src/services/session_checkpoint.py)             *)
(* A Python value is one of the typed values above, a tuple, or a dict: a    *)
(* function from its keys to its values.  A file holds the JSON document     *)
(* json.dump wrote.                                                          *)

TupleVal(items) == [ty |-> "tuple", items |-> items]
DictVal(map) == [ty |-> "dict", map |-> map]

\* the decimal digits of n >= 0
RECURSIVE DecimalChars(_)
DecimalChars(n) ==
    IF n < 10 THEN <<Digits[n + 1]>>
    ELSE Append(DecimalChars(n \div 10), Digits[(n % 10) + 1])

\* json.dump of a dict key: a str stays, an int, a bool or None becomes text
KeyString(k) ==
    CASE k.ty = "str" -> k.s
      [] k.ty = "int" -> IF k.n < 0 THEN <<"-">> \o DecimalChars(-k.n) ELSE DecimalChars(k.n)
      [] k.ty = "bool" -> IF k.b THEN <<"t", "r", "u", "e">> ELSE <<"f", "a", "l", "s", "e">>
      [] k.ty = "null" -> <<"n", "u", "l", "l">>

\* json.dump: the JSON document of a value; lists and tuples are both arrays,
\* the members of an object are its pairs of key text and document
RECURSIVE JsonDump(_)
JsonDump(v) ==
    CASE v.ty \in {"list", "tuple"} ->
            [j |-> "array", items |-> [i \in 1..Len(v.items) |-> JsonDump(v.items[i])]]
      [] v.ty = "dict" ->
            [j |-> "object",
             members |-> {<<KeyString(k), JsonDump(v.map[k])>> : k \in DOMAIN v.map}]
      [] OTHER -> [j |-> "atom", v |-> v]

\* json.load: arrays become lists, objects become dicts with str keys
RECURSIVE JsonLoad(_)
JsonLoad(d) ==
    CASE d.j = "array" -> ListVal([i \in 1..Len(d.items) |-> JsonLoad(d.items[i])])
      [] d.j = "object" ->
            DictVal([k \in {StrVal(m[1]) : m \in d.members} |->
                        JsonLoad((CHOOSE m \in d.members : m[1] = k.s)[2])])
      [] OTHER -> d.v

CheckpointPathShared(sid) == "checkpoint.json"

\* os.path.join(self.storage_dir, f"{session_id}.json")
CheckpointPath(sid) == sid \o ".json"

\* save_checkpoint, lines 14-18: the payload is written over the file
SaveCheckpointFiles(files, sid, state, now) ==
    (CheckpointPath(sid) :>
        JsonDump(DictVal((StrVal(<<"saved_at">>) :> IntVal(now)) @@
                         (StrVal(<<"state">>) :> state))))
    @@ files

\* load_checkpoint, lines 21-26: None without a file, else payload.get('state')
LoadCheckpointValue(files, sid) ==
    IF CheckpointPath(sid) \notin DOMAIN files THEN NullVal
    ELSE LET payload == JsonLoad(files[CheckpointPath(sid)])
         IN  IF StrVal(<<"state">>) \in DOMAIN payload.map
             THEN payload.map[StrVal(<<"state">>)] ELSE NullVal

\* the states saved: values json.dump accepts
Str1(c) == StrVal(<<c>>)
CheckpointStates ==
    { DictVal(<<>>),
      DictVal(Str1("q") :> Str1("x")),
      DictVal((Str1("q") :> Str1("y")) @@ (Str1("n") :> IntVal(2))),
      DictVal((Str1("s") :> ListVal(<<Str1("u"), NullVal>>)) @@
              (Str1("p") :> DictVal(Str1("t") :> BoolVal(TRUE)))),
      DictVal(Str1("s") :> TupleVal(<<Str1("u"), IntVal(9)>>)),
      DictVal(Str1("c") :> DictVal(IntVal(1) :> Str1("x"))) }
CheckpointIds == {"s1", "s2"}
MaxCheckpointOps == 4

NoLoad == [called |-> FALSE]

SaveCheckpoint(sid, state) ==
    /\ ckpt_ops < MaxCheckpointOps
    /\ ckpt_files' = SaveCheckpointFiles(ckpt_files, sid, state, ckpt_ops)
    /\ ckpt_saved' = (sid :> state) @@ ckpt_saved
    /\ ckpt_ops' = ckpt_ops + 1
    /\ UNCHANGED <<notSvc, busVars, ckpt_loaded>>

LoadCheckpoint(sid) ==
    /\ ckpt_ops < MaxCheckpointOps
    /\ ckpt_loaded' = [called |-> TRUE, session_id |-> sid,
                       value |-> LoadCheckpointValue(ckpt_files, sid),
                       saved |-> IF sid \in DOMAIN ckpt_saved
                                 THEN <<ckpt_saved[sid]>> ELSE <<>>]
    /\ ckpt_ops' = ckpt_ops + 1
    /\ UNCHANGED <<notSvc, busVars, ckpt_files, ckpt_saved>>

----------------------------------------------------------------------------
(* AgentBus (src/agents/a2a_messaging.py) *)

HandlersOfAnyTopic(subs, topic) ==
    IF subs = <<>> THEN <<>> ELSE subs[CHOOSE t \in DOMAIN subs : TRUE]

\* line 21: list(self._subs.get(topic, []))
HandlersOf(subs, topic) == IF topic \in DOMAIN subs THEN subs[topic] ELSE <<>>

\* subscribe, lines 15-16, under the lock
BusSubscribeTo(subs, topic, handler) ==
    (topic :> Append(HandlersOf(subs, topic), handler)) @@ subs

CaughtNever(raised) == FALSE

\* lines 23-26: except Exception around the call of a handler
Caught(raised) == raised

\* the topics, handlers and messages in use, the bounds on the calls
Topics == {"t1", "t2"}
Handlers == {"h1", "h2"}
Messages == {"m1", "m2"}
MaxSubscribes == 4
MaxPublishes == 2

NoPublish == [topic |-> "none", msg |-> "none", after |-> 0]

\* subscribe(topic, handler), by any thread at any time, a handler included
Subscribe(topic, handler) ==
    /\ Len(bus_subscribed) < MaxSubscribes
    /\ bus_subs' = BusSubscribeTo(bus_subs, topic, handler)
    /\ bus_subscribed' = Append(bus_subscribed, [topic |-> topic, handler |-> handler])
    /\ UNCHANGED <<notSvc, ckptVars, bus_pc, bus_pub, bus_handlers, bus_next, bus_calls,
                   bus_subs_then, bus_published>>

\* publish(topic, msg), lines 19-21: handlers is taken under the lock
PublishSnapshot(topic, msg) ==
    /\ bus_pc \in {"idle", "returned", "raised"}
    /\ bus_published < MaxPublishes
    /\ bus_pub' = [topic |-> topic, msg |-> msg, after |-> Len(bus_subscribed)]
    /\ bus_handlers' = HandlersOf(bus_subs, topic)
    /\ bus_subs_then' = bus_subs
    /\ bus_next' = 1
    /\ bus_calls' = <<>>
    /\ bus_pc' = "deliver"
    /\ bus_published' = bus_published + 1
    /\ UNCHANGED <<notSvc, ckptVars, bus_subs, bus_subscribed>>

\* lines 22-26: the next handler is called; it returns or it raises
PublishDeliver ==
    /\ bus_pc = "deliver"
    /\ bus_next <= Len(bus_handlers)
    /\ \E raised \in BOOLEAN :
          /\ bus_calls' = Append(bus_calls, [handler |-> bus_handlers[bus_next],
                                            msg |-> bus_pub.msg, raised |-> raised])
          /\ IF raised /\ ~Caught(raised)
             THEN bus_pc' = "raised" /\ UNCHANGED bus_next
             ELSE bus_pc' = "deliver" /\ bus_next' = bus_next + 1
    /\ UNCHANGED <<notSvc, ckptVars, bus_subs, bus_pub, bus_handlers, bus_subs_then,
                   bus_subscribed, bus_published>>

\* the for loop is over: publish returns
PublishReturn ==
    /\ bus_pc = "deliver"
    /\ bus_next > Len(bus_handlers)
    /\ bus_pc' = "returned"
    /\ UNCHANGED <<notSvc, ckptVars, bus_subs, bus_pub, bus_handlers, bus_next, bus_calls,
                   bus_subs_then, bus_subscribed, bus_published>>

----------------------------------------------------------------------------
(* AgentBus shared by threads: _lock is a threading.Lock, not re-entrant *)

BusThreads == {"T1", "T2"}

LockAfterWithStillHeld(t) == t

\* the end of a "with self._lock" block (lines 15-16, 20-21) releases the lock
LockAfterWith(t) == None

\* a call of subscribe or publish in progress
BusFrame(op, topic, handler) ==
    [op |-> op, pc |-> "acquire", topic |-> topic, handler |-> handler,
     handlers |-> <<>>, next |-> 1, id |-> 0]

BusLogEntry(kind, id, topic, handler) ==
    [kind |-> kind, id |-> id, topic |-> topic, handler |-> handler]

TopFrame(t) == bus_stack[t][Len(bus_stack[t])]
Popped(t) == SubSeq(bus_stack[t], 1, Len(bus_stack[t]) - 1)
WithTop(t, f) == [bus_stack EXCEPT ![t] = Append(Popped(t), f)]

\* thread t runs caller code: it is outside the bus, or inside a handler that
\* publish is invoking on it (line 24)
BusRunning(t) == IF bus_stack[t] = <<>> THEN TRUE ELSE TopFrame(t).pc = "handler"

\* the publish whose handler is running on t, 0 outside a handler
EnclosingPublish(t) == IF bus_stack[t] = <<>> THEN 0 ELSE TopFrame(t).id

MaxBusCalls == 4

\* the calls of subscribe and publish made so far, the ones still waiting for
\* the lock included
BusCallsMade ==
    LET n(t) == Cardinality({i \in DOMAIN bus_stack[t] :
                                bus_stack[t][i].pc \in {"acquire", "locked"}})
        RECURSIVE sum(_)
        sum(T) == IF T = {} THEN 0
                  ELSE LET t == CHOOSE x \in T : TRUE IN n(t) + sum(T \ {t})
    IN Len(bus_subscribed) + bus_published + sum(BusThreads)

\* a thread, or a handler running on it, calls subscribe(topic, handler)
ThreadSubscribe(t, topic, handler) ==
    /\ BusRunning(t)
    /\ BusCallsMade < MaxBusCalls
    /\ bus_stack' = [bus_stack EXCEPT ![t] = Append(@, BusFrame("subscribe", topic, handler))]
    /\ UNCHANGED <<notBus, bus_subs, bus_subscribed, bus_published, bus_lock, bus_log>>

\* a thread, or a handler running on it, calls publish(topic, msg)
ThreadPublish(t, topic) ==
    /\ BusRunning(t)
    /\ BusCallsMade < MaxBusCalls
    /\ bus_stack' = [bus_stack EXCEPT ![t] = Append(@, BusFrame("publish", topic, "none"))]
    /\ UNCHANGED <<notBus, bus_subs, bus_subscribed, bus_published, bus_lock, bus_log>>

\* lines 15 and 20: "with self._lock" blocks until the lock is free
ThreadAcquire(t) ==
    /\ bus_stack[t] # <<>>
    /\ TopFrame(t).pc = "acquire"
    /\ bus_lock = None
    /\ bus_lock' = t
    /\ bus_stack' = WithTop(t, [TopFrame(t) EXCEPT !.pc = "locked"])
    /\ UNCHANGED <<notBus, bus_subs, bus_subscribed, bus_published, bus_log>>

\* line 16, then the lock is released and subscribe returns
ThreadSubscribeLocked(t) ==
    /\ bus_stack[t] # <<>>
    /\ TopFrame(t).op = "subscribe"
    /\ TopFrame(t).pc = "locked"
    /\ bus_subs' = BusSubscribeTo(bus_subs, TopFrame(t).topic, TopFrame(t).handler)
    /\ bus_subscribed' = Append(bus_subscribed, [topic |-> TopFrame(t).topic,
                                                 handler |-> TopFrame(t).handler])
    /\ bus_log' = Append(bus_log,
                         BusLogEntry("subscribe",
                                     IF Len(bus_stack[t]) = 1 THEN 0
                                     ELSE bus_stack[t][Len(bus_stack[t]) - 1].id,
                                     TopFrame(t).topic, TopFrame(t).handler))
    /\ bus_lock' = LockAfterWith(t)
    /\ bus_stack' = [bus_stack EXCEPT ![t] = Popped(t)]
    /\ UNCHANGED <<notBus, bus_published>>

\* line 21, then the lock is released
ThreadSnapshot(t) ==
    /\ bus_stack[t] # <<>>
    /\ TopFrame(t).op = "publish"
    /\ TopFrame(t).pc = "locked"
    /\ bus_published' = bus_published + 1
    /\ bus_stack' = WithTop(t, [TopFrame(t) EXCEPT
                                  !.pc = "deliver",
                                  !.handlers = HandlersOf(bus_subs, TopFrame(t).topic),
                                  !.next = 1,
                                  !.id = bus_published + 1])
    /\ bus_log' = Append(bus_log, BusLogEntry("snapshot", bus_published + 1,
                                              TopFrame(t).topic, "none"))
    /\ bus_lock' = LockAfterWith(t)
    /\ UNCHANGED <<notBus, bus_subs, bus_subscribed>>

\* lines 22-24: the next handler of the snapshot is called, outside the lock
ThreadInvoke(t) ==
    /\ bus_stack[t] # <<>>
    /\ TopFrame(t).pc = "deliver"
    /\ TopFrame(t).next <= Len(TopFrame(t).handlers)
    /\ bus_stack' = WithTop(t, [TopFrame(t) EXCEPT !.pc = "handler"])
    /\ bus_log' = Append(bus_log, BusLogEntry("invoke", TopFrame(t).id, TopFrame(t).topic,
                                              TopFrame(t).handlers[TopFrame(t).next]))
    /\ UNCHANGED <<notBus, bus_subs, bus_subscribed, bus_published, bus_lock>>

\* lines 24-26: the handler returns or raises, and the loop goes on
ThreadHandlerEnds(t) ==
    /\ bus_stack[t] # <<>>
    /\ TopFrame(t).pc = "handler"
    /\ \E raised \in BOOLEAN :
          IF raised /\ ~Caught(raised)
          THEN bus_stack' = [bus_stack EXCEPT ![t] = Popped(t)]
          ELSE bus_stack' = WithTop(t, [TopFrame(t) EXCEPT !.pc = "deliver",
                                                           !.next = @ + 1])
    /\ UNCHANGED <<notBus, bus_subs, bus_subscribed, bus_published, bus_lock, bus_log>>

\* the for loop is over: publish returns to its caller
ThreadPublishReturns(t) ==
    /\ bus_stack[t] # <<>>
    /\ TopFrame(t).pc = "deliver"
    /\ TopFrame(t).next > Len(TopFrame(t).handlers)
    /\ bus_stack' = [bus_stack EXCEPT ![t] = Popped(t)]
    /\ bus_log' = Append(bus_log, BusLogEntry("return", TopFrame(t).id, TopFrame(t).topic,
                                              "none"))
    /\ UNCHANGED <<notBus, bus_subs, bus_subscribed, bus_published, bus_lock>>

----------------------------------------------------------------------------
(* Single calls of plan_research, validate and rank_results *)

NoReturn == [returned |-> FALSE]

CallPlanResearch ==
    /\ fn_pc = "call"
    /\ fn_name = "plan_research"
    /\ fn_out' = [returned |-> TRUE, value |-> PlanResearch(fn_in.q, fn_in.o)]
    /\ fn_pc' = "done"
    /\ UNCHANGED <<notFun, fn_name, fn_in>>

CallValidate ==
    /\ fn_pc = "call"
    /\ fn_name = "validate"
    /\ fn_out' = [returned |-> TRUE, value |-> Validate(fn_in.o)]
    /\ fn_pc' = "done"
    /\ UNCHANGED <<notFun, fn_name, fn_in>>

CallRankResults ==
    /\ fn_pc = "call"
    /\ fn_name = "rank_results"
    /\ fn_out' = [returned |-> TRUE, value |-> RankResults(fn_in.sources)]
    /\ fn_pc' = "done"
    /\ UNCHANGED <<notFun, fn_name, fn_in>>

\* rank_results is called again, on what it returned
CallRankResultsAgain ==
    /\ fn_pc = "done"
    /\ fn_name = "rank_results"
    /\ fn_out' = [returned |-> TRUE, value |-> RankResults(fn_out.value),
                  ranked |-> fn_out.value]
    /\ fn_pc' = "twice"
    /\ UNCHANGED <<notFun, fn_name, fn_in>>

----------------------------------------------------------------------------
(* Specifications *)

SvcOff ==
    /\ ckpt_files = <<>>
    /\ ckpt_loaded = NoLoad
    /\ ckpt_saved = <<>>
    /\ ckpt_ops = 0
    /\ bus_subs = <<>>
    /\ bus_pc = "idle"
    /\ bus_pub = NoPublish
    /\ bus_handlers = <<>>
    /\ bus_next = 1
    /\ bus_calls = <<>>
    /\ bus_subs_then = <<>>
    /\ bus_subscribed = <<>>
    /\ bus_published = 0
    /\ bus_lock = None
    /\ bus_stack = [t \in BusThreads |-> <<>>]
    /\ bus_log = <<>>

FunOff ==
    /\ fn_pc = "off"
    /\ fn_name = "none"
    /\ fn_in = <<>>
    /\ fn_out = NoReturn

OrchOff ==
    /\ sessions = <<>>
    /\ obs_session = NoObsSession
    /\ orch_pc = "idle"
    /\ orch_stage = "planning"
    /\ orch_op = "none"
    /\ session_id = None
    /\ query = ""
    /\ stage_out = <<>>
    /\ results = NoResults
    /\ agent_calls = <<>>
    /\ stage_trace = <<>>
    /\ end_calls = <<>>
    /\ raised_in = "none"
    /\ runs = 0
    /\ failed_calls = <<>>

ParOff ==
    /\ par_pc = "off"
    /\ par_questions = <<>>
    /\ par_workers = 1
    /\ par_task = <<>>
    /\ par_done = <<>>
    /\ par_snapshot = {}
    /\ par_collected = {}
    /\ par_all_sources = <<>>
    /\ par_research_log = <<>>
    /\ par_log_task = <<>>
    /\ par_search_calls = <<>>
    /\ par_result = NoParResult
    /\ async_result = NoAsyncResult

LoopOff ==
    /\ lp_pc = "off"
    /\ sub_questions = <<>>
    /\ iteration = 0
    /\ queries = <<>>
    /\ qi = 1
    /\ iteration_sources = <<>>
    /\ all_sources = <<>>
    /\ research_log = <<>>
    /\ llm_last = NoCall
    /\ gap_calls = 0
    /\ gap_args = <<>>
    /\ search_calls = <<>>

InitLoop ==
    /\ memories = <<>>
    /\ store_fails \in BOOLEAN
    /\ SvcOff
    /\ research_tasks = <<>>
    /\ FunOff
    /\ ParOff
    /\ OrchOff
    /\ lp_pc = "for"
    /\ sub_questions \in LoopPlans
    /\ iteration = 0
    /\ queries = <<>>
    /\ qi = 1
    /\ iteration_sources = <<>>
    /\ all_sources = <<>>
    /\ research_log = <<>>
    /\ llm_last = NoCall
    /\ gap_calls = 0
    /\ gap_args = <<>>
    /\ search_calls = <<>>

NextLoop ==
    \/ LoopExhausted
    \/ LoopFirstTurn
    \/ LoopGapTurn
    \/ LoopSkipQuery
    \/ LoopSearch
    \/ LoopEndTurn

SpecLoop == InitLoop /\ [][NextLoop]_vars

\* every search call and every call of the judgment function returns or
\* raises: a step of research that can be taken is taken
SpecLoopFair == InitLoop /\ [][NextLoop]_vars /\ WF_vars(NextLoop)

InitPar ==
    /\ memories = <<>>
    /\ store_fails = FALSE
    /\ SvcOff
    /\ research_tasks = <<>>
    /\ FunOff
    /\ LoopOff
    /\ OrchOff
    /\ par_pc = "submit"
    /\ par_questions \in ParPlans
    /\ par_workers \in 1..MaxWorkers
    /\ par_task = <<>>
    /\ par_done = <<>>
    /\ par_snapshot = {}
    /\ par_collected = {}
    /\ par_all_sources = <<>>
    /\ par_research_log = <<>>
    /\ par_log_task = <<>>
    /\ par_search_calls = <<>>
    /\ par_result = NoParResult
    /\ async_result = NoAsyncResult

NextPar ==
    \/ ParSubmit
    \/ \E i \in Tasks : TaskStart(i)
    \/ \E i \in Tasks : TaskSearch(i)
    \/ \E i \in Tasks : TaskStore(i)
    \/ \E i \in Tasks : TaskReturn(i)
    \/ ParAsCompleted
    \/ ParCollectCompleted
    \/ ParCollectFailed
    \/ ParReturn
    \/ ParallelResearchAsync

SpecPar == InitPar /\ [][NextPar]_vars

\* parallel_research with the steps of the tasks' store_memory calls
\* interleaved, on StoreTasks sub-questions
StoreTasks == 2
InitStore ==
    /\ InitPar
    /\ par_questions = [i \in 1..StoreTasks |-> ParSubQuestion(i)]

NextStore ==
    \/ ParSubmit
    \/ \E i \in Tasks : TaskStart(i)
    \/ \E i \in Tasks : TaskSearch(i)
    \/ \E i \in Tasks : TaskStoreEntry(i)
    \/ \E i \in Tasks : TaskStoreAppend(i)
    \/ \E i \in Tasks : TaskReturn(i)
    \/ ParAsCompleted
    \/ ParCollectCompleted
    \/ ParCollectFailed
    \/ ParReturn

SpecStore == InitStore /\ [][NextStore]_vars

Init ==
    /\ memories = <<>>
    /\ store_fails = FALSE
    /\ SvcOff
    /\ research_tasks = <<>>
    /\ FunOff
    /\ LoopOff
    /\ ParOff
    /\ OrchOff

Next ==
    \/ \E q \in Queries : ConductResearchNew(q)
    \/ \E q \in Queries, sid \in SessionIds : ConductResearchWithId(q, sid)
    \/ \E sid \in SessionIds : ResumeMissing(sid)
    \/ \E sid \in SessionIds : ResumeCompleted(sid)
    \/ \E sid \in SessionIds : ResumeRestart(sid)
    \/ StageAgentReturns
    \/ StageAgentRaises
    \/ StageUpdate
    \/ StageStore
    \/ StageOutput
    \/ FinalizeReturns
    \/ FinalizeRaises

Spec == Init /\ [][Next]_vars

\* one conduct_research whose agents run on the outcomes of their upstream calls
\* and in which nothing else fails; the call runs on until it ends
InitUp ==
    /\ memories = <<>>
    /\ store_fails = FALSE
    /\ SvcOff
    /\ research_tasks = <<>>
    /\ FunOff
    /\ LoopOff
    /\ ParOff
    /\ sessions = <<>>
    /\ obs_session = NoObsSession
    /\ orch_pc = "idle"
    /\ orch_stage = "planning"
    /\ orch_op = "none"
    /\ session_id = None
    /\ query = ""
    /\ stage_out = <<>>
    /\ results = NoResults
    /\ agent_calls = <<>>
    /\ stage_trace = <<>>
    /\ end_calls = <<>>
    /\ raised_in = "none"
    /\ runs = MaxRuns - 1
    /\ failed_calls = <<>>

NextUp ==
    \/ ConductResearchNew("q1")
    \/ StageAgentCall
    \/ StageResearchCall
    \/ LoopFirstTurn
    \/ LoopGapTurn
    \/ LoopSkipQuery
    \/ LoopSearch
    \/ LoopEndTurn
    \/ LoopExhausted
    \/ StageResearchReturn
    \/ StageUpdate
    \/ StageStore
    \/ StageOutput
    \/ FinalizeReturns

SpecUp == InitUp /\ [][NextUp]_vars /\ WF_vars(NextUp)

\* save_checkpoint and load_checkpoint called in any order on an empty
\* storage_dir
InitCkpt ==
    /\ Init

NextCkpt ==
    \/ \E sid \in CheckpointIds, state \in CheckpointStates : SaveCheckpoint(sid, state)
    \/ \E sid \in CheckpointIds : LoadCheckpoint(sid)

SpecCkpt == InitCkpt /\ [][NextCkpt]_vars

----------------------------------------------------------------------------
(* The HTTP API (src/server/fastapi_app.py) *)

\* conduct_research(self, query, output_format="report", session_id=None)
AcceptedKeywords == {"query", "output_format", "session_id"}

\* the keyword arguments of the call in run_research_task
PassedKeywords ==
    {"query", "max_sources", "include_citations", "max_iterations", "output_format",
     "session_id"}

\* a Python call binds when every keyword passed names a parameter; else it
\* raises TypeError before the function body runs
CallBinds(passed, accepted) == passed \subseteq accepted

\* what the pipeline does for the query when conduct_research runs
PipelineOutcomes == {"returns", "raises"}

ApiIds == {"r1", "r2", "r3"}
ApiQueries == {"q1", "q2"}
PipelineResult(id, q) ==
    DictVal((Str1("session_id") :> StrVal(<<id>>)) @@ (Str1("query") :> StrVal(<<q>>)))

\* POST /research: a fresh session id; the task is stored as pending and the
\* background execution is enqueued
SubmitResearchTask(id, q) ==
    /\ id \notin DOMAIN research_tasks
    /\ research_tasks' = (id :> [status |-> "pending", progress |-> 0, query |-> q,
                                 result |-> NullVal, error |-> "", pipeline |-> "none"])
                         @@ research_tasks
    /\ UNCHANGED <<notApi, svcVars>>

\* run_research_task, lines 114-120: the background execution starts
RunTaskStart(id) ==
    /\ id \in DOMAIN research_tasks
    /\ research_tasks[id].status = "pending"
    /\ research_tasks' = [research_tasks EXCEPT ![id].status = "running",
                                                ![id].progress = 1]
    /\ UNCHANGED <<notApi, svcVars>>

\* lines 122-149: the call of conduct_research, then completed and the
\* checkpoint, or error with str(e); pipeline is what the orchestrator does
\* for the query of the task (progress in tenths)
RunTaskCall(id) ==
    /\ id \in DOMAIN research_tasks
    /\ research_tasks[id].status = "running"
    /\ \E pipeline \in PipelineOutcomes :
          IF CallBinds(PassedKeywords, AcceptedKeywords) /\ pipeline = "returns"
          THEN /\ research_tasks' =
                      [research_tasks EXCEPT
                          ![id].status = "completed",
                          ![id].progress = 10,
                          ![id].result = PipelineResult(id, research_tasks[id].query),
                          ![id].pipeline = pipeline]
               /\ ckpt_files' = SaveCheckpointFiles(ckpt_files, id,
                                    PipelineResult(id, research_tasks[id].query), 0)
          ELSE /\ research_tasks' =
                      [research_tasks EXCEPT
                          ![id].status = "error",
                          ![id].error =
                              IF CallBinds(PassedKeywords, AcceptedKeywords)
                              THEN "pipeline failed"
                              ELSE "unexpected keyword argument",
                          ![id].pipeline = pipeline]
               /\ UNCHANGED ckpt_files
    /\ UNCHANGED <<notApi, busVars, ckpt_loaded, ckpt_saved, ckpt_ops>>

InitApi ==
    /\ Init

NextApi ==
    \/ \E id \in ApiIds, q \in ApiQueries : SubmitResearchTask(id, q)
    \/ \E id \in ApiIds : RunTaskStart(id)
    \/ \E id \in ApiIds : RunTaskCall(id)

SpecApi == InitApi /\ [][NextApi]_vars

\* an AgentBus with nothing subscribed; subscribe may be called while a
\* publish is delivering
InitBus ==
    /\ Init

NextBus ==
    \/ \E topic \in Topics, handler \in Handlers : Subscribe(topic, handler)
    \/ \E topic \in Topics, msg \in Messages : PublishSnapshot(topic, msg)
    \/ PublishDeliver
    \/ PublishReturn

SpecBus == InitBus /\ [][NextBus]_vars

NextBusThreads ==
    \/ \E t \in BusThreads, topic \in Topics, handler \in Handlers :
          ThreadSubscribe(t, topic, handler)
    \/ \E t \in BusThreads, topic \in Topics : ThreadPublish(t, topic)
    \/ \E t \in BusThreads : ThreadAcquire(t)
    \/ \E t \in BusThreads : ThreadSubscribeLocked(t)
    \/ \E t \in BusThreads : ThreadSnapshot(t)
    \/ \E t \in BusThreads : ThreadInvoke(t)
    \/ \E t \in BusThreads : ThreadHandlerEnds(t)
    \/ \E t \in BusThreads : ThreadPublishReturns(t)

SpecBusThreads == Init /\ [][NextBusThreads]_vars

InitFun ==
    /\ memories = <<>>
    /\ store_fails = FALSE
    /\ SvcOff
    /\ research_tasks = <<>>
    /\ LoopOff
    /\ ParOff
    /\ OrchOff
    /\ fn_pc = "call"
    /\ fn_out = NoReturn
    /\ \/ /\ fn_name = "plan_research"
          /\ fn_in \in [q : PlanQueries, o : PlanOutcomes]
       \/ /\ fn_name = "validate"
          /\ fn_in \in [o : ValidateOutcomes]
       \/ /\ fn_name = "rank_results"
          /\ fn_in \in [sources : RankInputs]

NextFun ==
    \/ CallPlanResearch
    \/ CallValidate
    \/ CallRankResults
    \/ CallRankResultsAgain

SpecFun == InitFun /\ [][NextFun]_vars

----------------------------------------------------------------------------
(* Properties of the iterative research loop (SpecLoop) *)


\* the searches issued in the turn with index it
SearchesOfTurn(it) == {i \in 1..Len(search_calls) : search_calls[i].iteration = it}

\* a reply that holds no JSON object: empty, a JSON value that is no object, or
\* text in which neither the whole nor the span from the first "{" to the last
\* "}" is an object
Malformed(text) ==
    /\ ~IsObject(text)
    /\ \/ text = <<>>
       \/ JsonLoads(text).ok
       \/ LET start == FirstIndex(text, "{")
              end   == LastIndex(text, "}")
          IN  ~(start # 0 /\ end > start /\ IsObject(SubSeq(text, start, end)))

GapCallFailed == llm_last # NoCall /\ (llm_last.raised \/ Malformed(llm_last.text))

\* C1: whatever the Gap Analyzer answers, the loop runs at most max_iterations
\* turns: no turn has an index of max_iterations or more, at most
\* max_iterations records are appended, and the returned iterations_completed
\* is at most max_iterations.
C1_LoopBounded ==
    /\ iteration <= max_iterations
    /\ Len(research_log) <= max_iterations
    /\ gap_calls < max_iterations
    /\ \A i \in 1..Len(search_calls) : search_calls[i].iteration < max_iterations
    /\ lp_pc = "search" => iteration < max_iterations
    /\ LoopReturned => ResearchResult.iterations_completed <= max_iterations

\* the Gap Analyzer asked for more with queries on every turn, and the loop
\* still stopped after max_iterations turns
C1_Witness ==
    /\ lp_pc = "exhausted"
    /\ gap_calls = max_iterations - 1
    /\ IdentifyGaps(llm_last).need_more
    /\ IdentifyGaps(llm_last).next_search # <<>>
    /\ ResearchResult.iterations_completed = max_iterations
    /\ Len(search_calls) >= max_iterations

\* C2: on a turn after the first, when the judgment call raises or its reply is
\* malformed, _identify_gaps returns {next_search: [], need_more: false} and
\* the loop ends on that turn: research has returned normally, no record was
\* appended for the turn and no search was issued in it.
C2_GapFailureEndsLoop ==
    GapCallFailed =>
        /\ IdentifyGaps(llm_last) = DefaultGap
        /\ lp_pc = "converged"
        /\ Len(research_log) = iteration
        /\ SearchesOfTurn(iteration) = {}

\* a malformed, non-empty reply on the second turn, after sources were found
C2_Witness ==
    /\ lp_pc = "converged"
    /\ llm_last # NoCall
    /\ ~llm_last.raised
    /\ llm_last.text # <<>>
    /\ Malformed(llm_last.text)
    /\ ~JsonLoads(llm_last.text).ok
    /\ iteration = 1
    /\ all_sources # <<>>

\* C3: on a turn after the first the loop converges (no search, no record for
\* the turn) whenever the Gap Analyzer returns need_more = false or returns no
\* queries.
C3_NoQueriesEndsLoop ==
    (llm_last # NoCall /\ lp_pc # "for"
        /\ (~IdentifyGaps(llm_last).need_more \/ IdentifyGaps(llm_last).next_search = <<>>))
    => /\ lp_pc = "converged"
       /\ Len(research_log) = iteration
       /\ SearchesOfTurn(iteration) = {}

----------------------------------------------------------------------------
(* Properties of the thread-pool coordinator (SpecPar) *)

RECURSIVE SumCompleted(_)
SumCompleted(log) ==
    IF log = <<>> THEN 0
    ELSE (IF log[1].status = "completed" THEN log[1].sources_found ELSE 0)
         + SumCompleted(Tail(log))

LogEntries(status) ==
    {k \in 1..Len(par_result.research_log) : par_result.research_log[k].status = status}

\* C4: the total_sources that parallel_research returns is the sum of
\* sources_found over the log entries with status completed, and the entries
\* with status failed count no source.
C4_TotalIsSumOfCompleted ==
    par_pc = "returned" =>
        /\ par_result.total_sources = SumCompleted(par_result.research_log)
        /\ par_result.total_sources = Len(par_result.sources)
        /\ \A k \in LogEntries("failed") : par_result.research_log[k].sources_found = 0

\* a run with a failed task and completed tasks that found sources
C4_Witness ==
    /\ par_pc = "returned"
    /\ LogEntries("failed") # {}
    /\ Cardinality(LogEntries("completed")) >= 2
    /\ par_result.total_sources = 4

\* C5 (amended): a task that raises stops no other task.  When
\* parallel_research has returned, every task has settled after exactly one
\* search, the log holds exactly one entry per submitted sub-question, the
\* entry of a task is {sources_found: 0, status: failed, error} with error the
\* str() of the exception exactly when the task raised, and otherwise status
\* completed with the number of sources the task returned, all of which are in
\* the result.
C5_FailureIsolated ==
    par_pc = "returned" =>
        LET log == par_result.research_log
        IN  /\ \A i \in Tasks : Settled(i) /\ Len(par_search_calls[i]) = 1
            /\ Len(log) = Len(par_questions)
            /\ Len(par_log_task) = Len(log)
            /\ \A i \in Tasks : Cardinality({k \in 1..Len(log) : par_log_task[k] = i}) = 1
            /\ \A k \in 1..Len(log) :
                  LET i == par_log_task[k]
                      e == log[k]
                  IN  /\ e.question = par_questions[i].question
                      /\ e.status = "failed" <=> par_task[i].st = "failed"
                      /\ e.status = "failed" =>
                            /\ e.sources_found = 0
                            /\ "error" \in DOMAIN e
                            /\ e.error = par_task[i].error
                      /\ e.status # "failed" =>
                            /\ e.status = "completed"
                            /\ "error" \notin DOMAIN e
                            /\ e.sources_found = Len(par_task[i].sources)
                            /\ \A j \in 1..Len(par_task[i].sources) :
                                  \E m \in 1..Len(par_result.sources) :
                                      par_result.sources[m] = par_task[i].sources[j]
            /\ par_result.total_sources = SumCompleted(log)

\* three sub-questions on two workers: the first task raised while the second
\* was running, the third started after that, and both found their sources
C5_Witness ==
    /\ par_pc = "returned"
    /\ Len(par_questions) = 3
    /\ par_workers = 2
    /\ par_done[1] = 1
    /\ par_task[1].st = "failed"
    /\ par_task[2].st = "finished" /\ par_task[2].sources # <<>>
    /\ par_task[3].st = "finished" /\ par_task[3].sources # <<>>
    /\ Cardinality(LogEntries("completed")) = 2
    /\ Cardinality(LogEntries("failed")) = 1
    /\ par_result.total_sources = 4

\* C5 as stated: every entry of a task that raised has a non-empty error
C5_FailedErrorNonEmpty ==
    par_pc = "returned" =>
        \A k \in LogEntries("failed") : par_result.research_log[k].error # ""

----------------------------------------------------------------------------
(* Properties of the ResearchOrchestrator *)

Stages == <<"planning", "research", "synthesis", "validation", "content_generation">>
StageOrder == Stages \o <<"completed">>
AgentOrder == <<"QueryPlanner", "Researcher", "Synthesizer", "Validator", "ContentGenerator">>
StageSet == {Stages[i] : i \in 1..Len(Stages)}

StageRank(stage) == CHOOSE i \in 1..Len(StageOrder) : StageOrder[i] = stage
IsPrefix(s, t) == Len(s) <= Len(t) /\ \A i \in 1..Len(s) : s[i] = t[i]

\* conduct_research propagated an exception that a stage raised
StageRaised == orch_pc = "raised" /\ raised_in \in StageSet

MarkedFailed(session) ==
    \/ session.current_stage = "failed"
    \/ "status" \in DOMAIN session /\ session.status = "failed"

\* C6: when a stage of conduct_research raises, the Session is marked failed
\* (current_stage or status) by the time the exception is propagated
C6_SessionMarkedFailed ==
    StageRaised => MarkedFailed(sessions[session_id])

\* C7: when a stage of conduct_research raises, the observability session is
\* ended once, with status failed and never completed, the exception reaches the
\* caller and no result is returned for the run
C7_FailureSignalled ==
    /\ StageRaised =>
          /\ obs_session.started
          /\ obs_session.status = "failed"
          /\ end_calls = <<"failed">>
          /\ results = NoResults
    /\ (raised_in \in StageSet) => (orch_pc = "raised" /\ results = NoResults)
    /\ (orch_pc = "returned" /\ stage_trace # <<>>) =>
          (raised_in = "none" /\ end_calls = <<"completed">>)

C7_Witness ==
    /\ StageRaised
    /\ raised_in = "validation"
    /\ agent_calls = SubSeq(AgentOrder, 1, 4)

\* C8: in a run where no stage raises the five agents are called once each in
\* the order of the pipeline, each after the stage before it advanced the
\* Session, current_stage goes through planning, research, synthesis,
\* validation, content_generation, completed, and the Session is completed
\* (current_stage and status) when conduct_research returns
C8_PipelineOrder ==
    /\ IsPrefix(agent_calls, AgentOrder)
    /\ IsPrefix(stage_trace, StageOrder)
    /\ Len(agent_calls) <= Len(stage_trace)
    /\ orch_pc \in {"update", "store", "output"} => Len(agent_calls) = StageRank(orch_stage)
    /\ (orch_pc = "returned" /\ stage_trace # <<>>) =>
          /\ agent_calls = AgentOrder
          /\ stage_trace = StageOrder
          /\ sessions[session_id].current_stage = "completed"
          /\ sessions[session_id].status = "completed"

C8_Witness ==
    /\ orch_pc = "returned"
    /\ orch_op = "conduct"
    /\ Len(agent_calls) = 5
    /\ Len(stage_trace) = 6

\* C9: the current_stage of a Session only changes to a later stage of the
\* order or to failed, except in a restart by resume_session
C9_StageOnlyForward ==
    [][\A sid \in DOMAIN sessions :
          (sid \in DOMAIN sessions'
              /\ sessions'[sid].current_stage # sessions[sid].current_stage) =>
          \/ sessions'[sid].current_stage = "failed"
          \/ StageRank(sessions'[sid].current_stage) > StageRank(sessions[sid].current_stage)
          \/ orch_op' = "resume"]_vars

\* C10: in every state, a Session whose current_stage is later than a stage
\* holds the output of the agent of that stage
C10_OutputBeforeAdvance ==
    \A sid \in DOMAIN sessions : \A i \in 1..Len(Stages) :
        StageRank(sessions[sid].current_stage) > i =>
            AgentOrder[i] \in DOMAIN sessions[sid].outputs

\* resume_session is called for a stored Session
ResumeCalled(sid) ==
    /\ runs' = runs + 1
    /\ orch_op' = "resume"
    /\ session_id' = sid
    /\ sid \in DOMAIN sessions

\* C11: resume_session on a Session whose current_stage is completed returns
\* the stored Session, calls no agent and leaves the Session Store, the memory
\* bank and the observability session as they were, at every call
C11_ResumeCompletedNoOp ==
    [][\A sid \in SessionIds :
          (ResumeCalled(sid) /\ sessions[sid].current_stage = "completed") =>
              /\ orch_pc' = "returned"
              /\ results' = sessions[sid]
              /\ agent_calls' = <<>>
              /\ end_calls' = <<>>
              /\ sessions' = sessions
              /\ memories' = memories
              /\ obs_session' = obs_session]_vars

C11_Witness ==
    /\ orch_pc = "returned"
    /\ orch_op = "resume"
    /\ agent_calls = <<>>
    /\ results = sessions[session_id]
    /\ sessions[session_id].current_stage = "completed"
    /\ DOMAIN sessions[session_id].outputs # {}

\* C12: resume_session on a stored Session whose current_stage is not completed
\* starts the pipeline again at planning under the same id with the query of
\* the Session, with no output of the earlier run kept, and a run so started
\* that returns has called the five agents again
C12_ResumeRestartsPipeline ==
    /\ [][\A sid \in SessionIds :
             (ResumeCalled(sid) /\ sessions[sid].current_stage # "completed") =>
                 /\ orch_pc' = "agent"
                 /\ orch_stage' = "planning"
                 /\ query' = sessions[sid].query
                 /\ sessions'[sid].id = sid
                 /\ sessions'[sid].query = sessions[sid].query
                 /\ sessions'[sid].current_stage = "planning"
                 /\ DOMAIN sessions'[sid].outputs = {}
                 /\ DOMAIN stage_out' = {}
                 /\ agent_calls' = <<>>]_vars
    /\ [](orch_op = "resume" /\ orch_pc = "returned" /\ stage_trace # <<>> =>
             /\ agent_calls = AgentOrder
             /\ \A i \in 1..Len(AgentOrder) :
                   AgentOrder[i] \in DOMAIN sessions[session_id].outputs)

\* a Session that failed in a later stage was resumed and ran to the end
C12_Witness ==
    /\ orch_op = "resume"
    /\ orch_pc = "returned"
    /\ runs = 2
    /\ agent_calls = AgentOrder
    /\ sessions[session_id].current_stage = "completed"

----------------------------------------------------------------------------
(* Properties of single calls (SpecFun) *)

NonSpace(c) == c # " "

RECURSIVE Flatten(_)
Flatten(ws) == IF ws = <<>> THEN <<>> ELSE Head(ws) \o Flatten(Tail(ws))

\* ws are the words of the text q
AreWordsOf(ws, q) ==
    /\ \A i \in 1..Len(ws) : ws[i] # <<>> /\ \A j \in 1..Len(ws[i]) : ws[i][j] # " "
    /\ Flatten(ws) = SelectSeq(q, NonSpace)
    /\ Len(ws) = Cardinality({i \in 1..Len(q) : q[i] # " " /\ (i = 1 \/ q[i - 1] = " ")})

PlanCalled == fn_pc = "done" /\ fn_name = "plan_research"

\* the judgment call raised, or no JSON object can be read from its reply
PlanUnreadable == fn_in.o.raised \/ Malformed(fn_in.o.text)

\* C14: when the judgment call raises or its reply holds no JSON object,
\* plan_research returns the plan {main_topic: q, sub_questions: [one
\* sub-question with question q, priority 5 and the words of q as keywords],
\* estimated_sources_needed: 6}
C14_PlanFallback ==
    (PlanCalled /\ PlanUnreadable) =>
        /\ fn_out.returned
        /\ DOMAIN fn_out.value = {"main_topic", "sub_questions", "estimated_sources_needed"}
        /\ fn_out.value.main_topic = fn_in.q
        /\ fn_out.value.estimated_sources_needed = 6
        /\ Len(fn_out.value.sub_questions) = 1
        /\ LET sq == fn_out.value.sub_questions[1]
           IN  /\ DOMAIN sq = {"question", "priority", "keywords"}
               /\ sq.question = fn_in.q
               /\ sq.priority = 5
               /\ AreWordsOf(sq.keywords, fn_in.q)

\* a query of two words with white space around them, and a reply of prose
\* around a broken object
C14_Witness ==
    /\ PlanCalled
    /\ ~fn_in.o.raised
    /\ fn_in.o.text = <<Word, LBrace, Word, RBrace>>
    /\ Len(fn_in.q) = 7
    /\ Len(fn_out.value.sub_questions[1].keywords) = 2

ValidateCalled == fn_pc = "done" /\ fn_name = "validate"

\* C15: whatever the judgment call gives, the confidence that validate returns
\* is an integer from 0 to 100
C15_ConfidenceInRange ==
    ValidateCalled => (fn_out.returned /\ fn_out.value.confidence \in 0..100)

RankCalled == fn_pc = "done" /\ fn_name = "rank_results"

\* out is the input rearranged by the bijection p of positions
RearrangedBy(p, in, out) ==
    /\ Len(out) = Len(in)
    /\ \A i \in 1..Len(in) : out[i] = in[p[i]]

Bijections(n) == {p \in [1..n -> 1..n] : \A i, j \in 1..n : p[i] = p[j] => i = j}

\* C20: rank_results returns its input rearranged, relevance_score never
\* increasing along the result, and sources of equal score in their input order
C20_RankStablePermutation ==
    RankCalled =>
        LET in == fn_in.sources
            out == fn_out.value
        IN  /\ fn_out.returned
            /\ \E p \in Bijections(Len(in)) :
                  /\ RearrangedBy(p, in, out)
                  /\ \A i, j \in 1..Len(in) :
                        i < j => /\ SortKey(out[i]) >= SortKey(out[j])
                                 /\ SortKey(out[i]) = SortKey(out[j]) => p[i] < p[j]

\* three sources, the first two tied below the third, have been ranked
C20_Witness ==
    /\ RankCalled
    /\ Len(fn_in.sources) = 3
    /\ fn_in.sources[1] # fn_in.sources[2]
    /\ SortKey(fn_in.sources[1]) = SortKey(fn_in.sources[2])
    /\ SortKey(fn_in.sources[3]) > SortKey(fn_in.sources[1])
    /\ fn_out.value = <<fn_in.sources[3], fn_in.sources[1], fn_in.sources[2]>>

\* C16: the result of the parallel coordinator has every ResearchResult field
\* the orchestrator reads, as the result of the iterative loop has
C16_ParallelResultReadable ==
    /\ LoopReturned => ResearchResultReadable(ResearchResult)
    /\ par_pc = "returned" => ResearchResultReadable(par_result)

\* C19: no search is dispatched for an empty question, neither by the
\* iterative loop nor by a task of the parallel coordinator
C19_NoEmptyQuestionSearched ==
    /\ \A c \in 1..Len(search_calls) : search_calls[c].query # ""
    /\ \A i \in DOMAIN par_search_calls :
          par_search_calls[i] # <<>> => par_questions[i].question # ""

RECURSIVE SumStored(_)
SumStored(n) == IF n = 0 THEN 0 ELSE par_task[n].stored + SumStored(n - 1)

\* C18: with the store_memory calls of the tasks interleaved, no record is
\* lost and the ids of the n stored records are exactly 1..n
C18_StoreConsistent ==
    /\ Len(memories) = SumStored(Len(par_task))
    /\ \A k \in 1..Len(memories) : memories[k].id = k

\* how often x occurs in the sequence s
Occurrences(s, x) == Cardinality({k \in 1..Len(s) : s[k] = x})
SameMultiset(s, t) ==
    /\ Len(s) = Len(t)
    /\ \A k \in 1..Len(s) : Occurrences(s, s[k]) = Occurrences(t, s[k])

\* C17: on the same sub-questions and search outcomes the async coordinator
\* returns what the thread-pool coordinator returns: the same total, the same
\* sources, and for every sub-question a log entry with the same question,
\* status, sources_found and presence of error
C17_AsyncEquivalent ==
    async_result # NoAsyncResult =>
        /\ async_result.total_sources = par_result.total_sources
        /\ SameMultiset(async_result.sources, par_result.sources)
        /\ Len(async_result.research_log) = Len(par_result.research_log)
        /\ \A k \in 1..Len(par_result.research_log) :
              LET pool == par_result.research_log[k]
                  async == async_result.research_log[par_log_task[k]]
              IN  /\ async.question = pool.question
                  /\ async.status = pool.status
                  /\ "sources_found" \in DOMAIN async
                  /\ async.sources_found = pool.sources_found
                  /\ ("error" \in DOMAIN async) = ("error" \in DOMAIN pool)

\* an upstream call of the current conduct_research has failed
SearchFailed == \E c \in 1..Len(search_calls) : search_calls[c].raised
GapAnalysisFailed == gap_calls > 0 /\ llm_last.raised
StageCallFailed(stage) == \E k \in 1..Len(failed_calls) : failed_calls[k] = stage
UpstreamFailed == failed_calls # <<>> \/ SearchFailed \/ GapAnalysisFailed

\* the result that stands in for a failed call
DefaultInPlace ==
    /\ \A c \in 1..Len(search_calls) : search_calls[c].raised => search_calls[c].found = 0
    /\ GapAnalysisFailed => lp_pc \in {"converged", "off"}
    /\ StageCallFailed("planning") =>
          /\ Len(stage_out["planning"].sub_questions) = 1
          /\ stage_out["planning"].sub_questions[1].question = QueryChars(query)
          /\ stage_out["planning"].main_topic = QueryChars(query)
    /\ StageCallFailed("synthesis") =>
          stage_out["synthesis"] =
              [synthesis |-> <<>>, sources_used |-> Len(stage_out["research"].sources),
               synthesis_length |-> 0]
    /\ StageCallFailed("validation") =>
          /\ stage_out["validation"].confidence = 70
          /\ stage_out["validation"].gaps = <<>>
    /\ StageCallFailed("content_generation") =>
          /\ stage_out["content_generation"].content = <<>>
          /\ stage_out["content_generation"].word_count = 0

PipelineCompleted ==
    /\ orch_pc = "returned"
    /\ sessions[session_id].current_stage = "completed"
    /\ results # NoResults

\* C13: a failed upstream call (the judgment call of planning, gap analysis,
\* synthesis, validation or generation, or a search of the research loop) is
\* replaced by the default result in the stage that made it; it never makes
\* conduct_research raise, and the pipeline goes on to completed
C13_UpstreamFailuresCaught ==
    /\ [](orch_pc # "raised" /\ raised_in = "none" /\ DefaultInPlace)
    /\ (UpstreamFailed ~> PipelineCompleted)

\* every upstream call of a completed conduct_research has failed
C13_Witness ==
    /\ PipelineCompleted
    /\ failed_calls = <<"planning", "synthesis", "validation", "content_generation">>
    /\ SearchFailed
    /\ GapAnalysisFailed

RankedTwice == fn_pc = "twice" /\ fn_name = "rank_results"

\* C21: ranking what rank_results returned gives the same sequence in the
\* same order
C21_RankIdempotent == RankedTwice => fn_out.value = fn_out.ranked

\* three sources out of order, two of them tied, have been ranked twice
C21_Witness ==
    /\ RankedTwice
    /\ Len(fn_in.sources) = 3
    /\ fn_out.ranked # fn_in.sources
    /\ \E i, j \in 1..3 :
          /\ i < j
          /\ fn_in.sources[i] # fn_in.sources[j]
          /\ SortKey(fn_in.sources[i]) = SortKey(fn_in.sources[j])

\* a value made of what JSON has: str-keyed dicts, lists, str, int, bool, None
RECURSIVE IsJsonNative(_)
IsJsonNative(v) ==
    CASE v.ty = "tuple" -> FALSE
      [] v.ty = "list" -> \A i \in 1..Len(v.items) : IsJsonNative(v.items[i])
      [] v.ty = "dict" -> \A k \in DOMAIN v.map : k.ty = "str" /\ IsJsonNative(v.map[k])
      [] OTHER -> TRUE

CalledHandlers == [i \in 1..Len(bus_calls) |-> bus_calls[i].handler]

\* the handlers of the first n subscribe calls that were for topic, in order
RECURSIVE SubscribedTo(_, _)
SubscribedTo(topic, n) ==
    IF n = 0 THEN <<>>
    ELSE IF bus_subscribed[n].topic = topic
         THEN Append(SubscribedTo(topic, n - 1), bus_subscribed[n].handler)
    ELSE SubscribedTo(topic, n - 1)

\* C23: when publish returns it has called the handlers subscribed to the
\* topic when it took its snapshot, once per subscription and in subscription
\* order, and no others; a handler subscribed later or to another topic only
\* is not called
C23_PublishDeliversSnapshot ==
    /\ bus_pc = "deliver" =>
          LET subscribed == SubscribedTo(bus_pub.topic, bus_pub.after)
          IN  /\ Len(bus_calls) <= Len(subscribed)
              /\ \A i \in 1..Len(bus_calls) : bus_calls[i].handler = subscribed[i]
    /\ bus_pc = "returned" =>
          CalledHandlers = SubscribedTo(bus_pub.topic, bus_pub.after)

\* a publish on t1 has returned after calling h1 twice, with h2 subscribed to
\* t2 before it and to t1 during it
C23_Witness ==
    /\ bus_pc = "returned"
    /\ bus_pub.topic = "t1"
    /\ CalledHandlers = <<"h1", "h1">>
    /\ bus_subs_then = ("t1" :> <<"h1", "h1">>) @@ ("t2" :> <<"h2">>)
    /\ bus_subs = ("t1" :> <<"h1", "h1", "h2">>) @@ ("t2" :> <<"h2">>)

\* a step of publish
PublishStep ==
    \/ \E topic \in Topics, msg \in Messages : PublishSnapshot(topic, msg)
    \/ PublishDeliver
    \/ PublishReturn

\* C24: a handler that raises stops nothing: the later handlers of the snapshot
\* are called with the same message, publish returns and never raises, and no
\* step of publish changes the subscription table
C24_HandlerFailureIsolated ==
    /\ [](bus_pc # "raised")
    /\ [](\A i \in 1..Len(bus_calls) :
             /\ bus_calls[i].msg = bus_pub.msg
             /\ bus_calls[i].raised /\ i < Len(bus_handlers) =>
                   \/ bus_pc = "deliver" /\ bus_next = i + 1 /\ Len(bus_calls) = i
                   \/ Len(bus_calls) > i)
    /\ [](bus_pc = "returned" => Len(bus_calls) = Len(bus_handlers))
    /\ [][PublishStep => UNCHANGED bus_subs]_vars

\* the first of three handlers raised and publish has returned
C24_Witness ==
    /\ bus_pc = "returned"
    /\ Len(bus_handlers) = 3
    /\ bus_calls[1].raised
    /\ ~bus_calls[2].raised
    /\ bus_calls[3].raised
    /\ Len(bus_calls) = 3

\* the sources of the tasks of the log entries 1..n that finished, one task
\* after the other
RECURSIVE SourcesOfLogged(_)
SourcesOfLogged(n) ==
    IF n = 0 THEN <<>>
    ELSE SourcesOfLogged(n - 1) \o
         (IF par_task[par_log_task[n]].st = "finished"
          THEN par_task[par_log_task[n]].sources ELSE <<>>)

\* C25: the source list and the log list of parallel_research change only in a
\* step of the collecting thread, by the sources and the one log entry of a
\* single settled task not collected before, while no task changes; so each
\* task has exactly one entry and its sources are there once
C25_AccumulatorSerialized ==
    /\ [][(par_all_sources' # par_all_sources \/ par_research_log' # par_research_log) =>
             /\ par_pc = "collecting"
             /\ par_task' = par_task
             /\ \E i \in Tasks \ par_collected :
                   /\ Settled(i)
                   /\ par_collected' = par_collected \cup {i}
                   /\ Len(par_research_log') = Len(par_research_log) + 1
                   /\ par_research_log'[Len(par_research_log')].question =
                          par_questions[i].question
                   /\ par_all_sources' = par_all_sources \o
                          (IF par_task[i].st = "finished" THEN par_task[i].sources
                           ELSE <<>>)]_vars
    /\ [](/\ Len(par_log_task) = Cardinality(par_collected)
          /\ \A i \in par_collected :
                Cardinality({k \in 1..Len(par_log_task) : par_log_task[k] = i}) = 1
          /\ Len(par_research_log) = Len(par_log_task)
          /\ par_all_sources = SourcesOfLogged(Len(par_log_task)))
    /\ [](par_pc = "returned" => par_collected = Tasks)

\* the sources of one task are in the accumulator while a second task is
\* settled but not collected and a third is still executing
C25_Witness ==
    /\ par_pc = "collecting"
    /\ Len(par_questions) = 3
    /\ par_all_sources # <<>>
    /\ \E i, j \in Tasks \ par_collected :
          /\ par_task[i].st = "finished" /\ par_task[i].sources # <<>>
          /\ par_task[j].st \in {"searching", "storing"}

\* the place of task i in the log and in the order of completion
LogPlace(i) == CHOOSE k \in 1..Len(par_log_task) : par_log_task[k] = i
DonePlace(i) == CHOOSE k \in 1..Len(par_done) : par_done[k] = i

\* the items of a sequence of sources with a given sort key, in their order
RECURSIVE WithKey(_, _)
WithKey(sources, key) ==
    IF sources = <<>> THEN <<>>
    ELSE (IF SortKey(sources[1]) = key THEN <<sources[1]>> ELSE <<>>)
         \o WithKey(Tail(sources), key)

\* the result holds the accumulated sources by falling key, those of one key
\* in the order the accumulator has them
RankedOnceAtTheEnd ==
    /\ Len(par_result.sources) = Len(par_all_sources)
    /\ \A k \in 1..(Len(par_result.sources) - 1) :
          SortKey(par_result.sources[k]) >= SortKey(par_result.sources[k + 1])
    /\ \A x \in {par_all_sources[k] : k \in 1..Len(par_all_sources)} :
          WithKey(par_result.sources, SortKey(x)) = WithKey(par_all_sources, SortKey(x))

\* C26 as stated: the log entries of parallel_research, and with them the
\* sources, are in the order in which the tasks completed
C26_LogInCompletionOrder ==
    \A i, j \in par_collected :
        LogPlace(i) < LogPlace(j) => DonePlace(i) < DonePlace(j)

\* C26, amended: the tasks settled before as_completed is entered are logged
\* first, in any order, and the others after them in the order in which they
\* complete (each entry and the one after it are so ordered, hence all are);
\* the sources are concatenated in log order, and they are ranked once, after
\* every task was collected, equal keys keeping that order
C26_LogInYieldOrder ==
    /\ \A k \in 1..(Len(par_log_task) - 1) :
          \/ par_log_task[k] \in par_snapshot
          \/ /\ par_log_task[k + 1] \notin par_snapshot
             /\ DonePlace(par_log_task[k]) < DonePlace(par_log_task[k + 1])
    /\ par_all_sources = SourcesOfLogged(Len(par_log_task))
    /\ par_pc # "returned" => par_result = NoParResult
    /\ par_pc = "returned" => par_collected = Tasks /\ RankedOnceAtTheEnd

\* three tasks returned sources: the second completed first, after as_completed
\* was entered, and the sources of equal key are in the result in log order,
\* which is not the order of submission
C26_Witness ==
    /\ par_pc = "returned"
    /\ Len(par_questions) = 3
    /\ par_snapshot = {}
    /\ par_done[1] = 2
    /\ par_log_task = par_done
    /\ \A i \in Tasks : Len(par_task[i].sources) = 2
    /\ WithKey(par_result.sources, 9)[1] = par_task[2].sources[2]

\* two tasks were settled when as_completed was entered and the one that
\* completed last was logged first
C26_SnapshotOutOfOrder ==
    /\ par_pc = "returned"
    /\ \E i, j \in par_snapshot :
          LogPlace(i) < LogPlace(j) /\ DonePlace(j) < DonePlace(i)

\* the entries the tasks of parallel_research_async stored, which each task
\* stores when its search returns: their order is that of completion
AsyncStored == {a \in DOMAIN memories : "execution" \in DOMAIN memories[a].metadata}

\* C27: the log entries of parallel_research_async, and with them the sources
\* before ranking, are in the order in which its tasks completed, as those of
\* the thread-pool coordinator are, not in the order of submission
C27_AsyncInCompletionOrder ==
    async_result # NoAsyncResult =>
        \A a, b \in AsyncStored :
            a < b =>
                \A k, l \in 1..Len(async_result.research_log) :
                    /\ async_result.research_log[k].question =
                           memories[a].metadata.sub_question
                    /\ async_result.research_log[l].question =
                           memories[b].metadata.sub_question
                    => k <= l

\* the one backend query of the task of a sub-question
SearchOfStrategy(sq) ==
    CASE sq.search_strategy = "academic" -> sq.question \o " filetype:pdf"
      [] sq.search_strategy = "news" -> sq.question \o " site:news"
      [] OTHER -> sq.question

\* C28: parallel_research has one task for each sub-question; a task issues
\* no backend search before it runs and exactly one, the one of its strategy,
\* once it has searched; and the tasks executing are never more than
\* max_workers
C28_OneSearchPerTask ==
    /\ par_pc # "submit" =>
          /\ DOMAIN par_task = 1..Len(par_questions)
          /\ \A i \in Tasks :
                par_search_calls[i] =
                    IF par_task[i].st \in {"queued", "searching"} THEN <<>>
                    ELSE <<SearchOfStrategy(par_questions[i])>>
          /\ Cardinality(Executing) <= par_workers
    /\ par_pc = "returned" => \A i \in Tasks : Len(par_search_calls[i]) = 1

\* two workers are busy with the first two tasks, each after its one search,
\* and the news task waits for a worker
C28_Witness ==
    /\ par_pc \in {"submitted", "collecting"}
    /\ par_workers = 2
    /\ Len(par_questions) = 3
    /\ par_task[1].st = "storing" /\ par_task[2].st = "storing"
    /\ par_task[3].st = "queued"
    /\ par_search_calls[2] = <<"pb filetype:pdf">>

\* the search calls of turn it, in the order they were made
CallsOfTurn(it) == SelectSeq(search_calls, LAMBDA c : c.iteration = it)

\* the queries of a turn that are to be searched: the first two, the empty
\* ones left out
FirstTwo(qs) == [k \in 1..(IF Len(qs) < 2 THEN Len(qs) ELSE 2) |-> qs[k]]
ToSearch(qs) == SelectSeq(FirstTwo(qs), LAMBDA q : q # "")

RECURSIVE SumFound(_)
SumFound(calls) ==
    IF calls = <<>> THEN 0 ELSE calls[1].found + SumFound(Tail(calls))

\* C29: a search that raises counts as zero results for its query and changes
\* nothing else: the sources found before in the turn are kept, every query
\* of the turn is searched whatever failed, the turn's record is appended with
\* the sources the other queries found, and research returns
C29_SearchFailureIsolated ==
    /\ [](\A c \in 1..Len(search_calls) :
             search_calls[c].raised => search_calls[c].found = 0)
    /\ [][search_calls' # search_calls =>
             /\ IsPrefix(iteration_sources, iteration_sources')
             /\ Len(iteration_sources') =
                    Len(iteration_sources) + search_calls'[Len(search_calls')].found
             /\ all_sources' = all_sources
             /\ lp_pc' = "search"]_vars
    /\ [](\A k \in 1..Len(research_log) :
             LET calls == CallsOfTurn(k - 1)
                 expected == ToSearch(research_log[k].queries)
             IN  /\ Len(calls) = Len(expected)
                 /\ \A j \in 1..Len(calls) : calls[j].query = expected[j]
                 /\ research_log[k].sources_found = SumFound(calls))
    /\ [](LoopReturned =>
             \A c \in 1..Len(search_calls) :
                 search_calls[c].iteration < Len(research_log))

\* research returned after a turn whose first search found sources and whose
\* second raised: the turn is in the log with the sources of the first
C29_Witness ==
    /\ LoopReturned
    /\ \E c \in 1..(Len(search_calls) - 1) :
          /\ search_calls[c].iteration = search_calls[c + 1].iteration
          /\ search_calls[c].found > 0
          /\ search_calls[c + 1].raised
          /\ research_log[search_calls[c].iteration + 1].sources_found =
                 search_calls[c].found

\* C30: no turn issues more than 2 searches, however many queries it has, and
\* a research call issues at most 2 * max_iterations
C30_TwoSearchesPerTurn ==
    /\ \A it \in 0..max_iterations : Cardinality(SearchesOfTurn(it)) <= 2
    /\ Len(search_calls) <= 2 * max_iterations
    /\ \A c \in 1..Len(search_calls) :
          /\ lp_pc = "search" /\ search_calls[c].iteration = iteration =>
                 \E k \in 1..2 : k <= Len(queries) /\ queries[k] = search_calls[c].query

\* research returned after a first turn of three sub-questions and a later
\* turn of three proposed queries: two searches in the first, one in the other
C30_Witness ==
    /\ LoopReturned
    /\ Len(research_log) >= 2
    /\ Len(research_log[1].queries) = 3
    /\ Cardinality(SearchesOfTurn(0)) = 2
    /\ \E k \in 2..Len(research_log) :
          /\ Len(research_log[k].queries) = 3
          /\ Cardinality(SearchesOfTurn(k - 1)) = 1

\* the queries of the search calls of turn it, in the order they were made
QueriesIssued(it) == [j \in 1..Len(CallsOfTurn(it)) |-> CallsOfTurn(it)[j].query]

\* C31: the queries of every iteration record are exactly the queries searched
\* in its turn, its sources_found is the number of sources those searches
\* returned
C31_RecordIsAccurate ==
    \A k \in 1..Len(research_log) :
        /\ research_log[k].queries = QueriesIssued(k - 1)
        /\ research_log[k].sources_found = SumFound(CallsOfTurn(k - 1))

\* the texts of the sub-questions in plan order, a missing text being empty
PlanTexts ==
    [i \in 1..Len(sub_questions) |->
        IF sub_questions[i].question = None THEN "" ELSE sub_questions[i].question]

\* the search calls made in the turns before turn it
CallsBefore(it) == SelectSeq(search_calls, LAMBDA c : c.iteration < it)

\* C32: the queries of the first turn are the sub-question texts in plan order
\* and _identify_gaps is not called in it; in every later turn it is called
\* once, before the searches of the turn, with all the sources found in the
\* turns before; so there are at most max_iterations - 1 such calls
C32_GapCallsPerTurn ==
    /\ iteration = 0 /\ lp_pc = "search" => queries = PlanTexts /\ gap_args = <<>>
    /\ research_log # <<>> => research_log[1].queries = PlanTexts
    /\ \A c \in 1..Len(search_calls) : search_calls[c].iteration <= Len(gap_args)
    /\ Len(research_log) <= Len(gap_args) + 1
    /\ \A g \in 1..Len(gap_args) :
          /\ gap_args[g].iteration = g
          /\ gap_args[g].searches = Len(CallsBefore(g))
          /\ \A c \in 1..Len(search_calls) :
                (c <= gap_args[g].searches) = (search_calls[c].iteration < g)
          /\ Len(gap_args[g].sources) = SumFound(CallsBefore(g))
          /\ IsPrefix(gap_args[g].sources, all_sources)
    /\ Len(gap_args) <= max_iterations - 1

\* the loop ran all its turns: _identify_gaps was called in the second and in
\* the third, the second time with more sources than the first, and the plan
\* has two different texts
C32_Witness ==
    /\ lp_pc = "exhausted"
    /\ Len(sub_questions) = 2
    /\ PlanTexts[1] # PlanTexts[2]
    /\ Len(gap_args) = max_iterations - 1
    /\ gap_args[1].sources # <<>>
    /\ Len(gap_args[2].sources) > Len(gap_args[1].sources)

\* C33: when every call returns or raises, research returns; it returns
\* before the last turn only when _identify_gaps answered need_more false,
\* and otherwise after exactly max_iterations turns, in both cases with a
\* result that holds every source found
C33_ResearchTerminates ==
    /\ <>LoopReturned
    /\ [](lp_pc = "converged" => ~IdentifyGaps(llm_last).need_more)
    /\ [](lp_pc = "exhausted" =>
             /\ Len(research_log) = max_iterations
             /\ ResearchResult.iterations_completed = max_iterations)
    /\ [](LoopReturned =>
             /\ Len(ResearchResult.sources) = SumFound(search_calls)
             /\ ResearchResult.total_sources = SumFound(search_calls)
             /\ Len(iteration_sources) <= Len(ResearchResult.sources)
             /\ \A i \in 1..Len(iteration_sources) :
                    i <= Len(ResearchResult.sources) =>
                        ResearchResult.sources[Len(ResearchResult.sources)
                                               - Len(iteration_sources) + i]
                            = iteration_sources[i]
             /\ ResearchResult.research_log = research_log)

\* _identify_gaps answered need_more with queries in every turn, searches
\* found sources in the first turn and none in the last, and research returned
\* after max_iterations turns with the sources of the earlier turns
C33_Witness ==
    /\ lp_pc = "exhausted"
    /\ Len(gap_args) = max_iterations - 1
    /\ IdentifyGaps(llm_last).need_more
    /\ IdentifyGaps(llm_last).next_search # <<>>
    /\ research_log[1].sources_found > 0
    /\ research_log[max_iterations].sources_found = 0
    /\ ResearchResult.total_sources > 0

\* the search call that found the k-th source of all_sources
RECURSIVE CallOfSource(_, _)
CallOfSource(k, c) ==
    IF c > Len(search_calls) THEN 0
    ELSE IF k <= search_calls[c].found THEN c
    ELSE CallOfSource(k - search_calls[c].found, c + 1)

\* C34: once research has returned, the Fact Store holds one source record
\* for every source of the result, with the content of the source and tagged
\* with the turn and the query that found it, and no other
C34_SourcesPersisted ==
    LoopReturned =>
        /\ Len(memories) = ResearchResult.total_sources
        /\ \A k \in 1..Len(ResearchResult.sources) :
              /\ k <= Len(memories)
              /\ memories[k].category = "source"
              /\ memories[k].content = ResearchResult.sources[k].content
              /\ memories[k].metadata.url = ResearchResult.sources[k].url
              /\ memories[k].metadata.iteration =
                     search_calls[CallOfSource(k, 1)].iteration
              /\ memories[k].metadata.query = search_calls[CallOfSource(k, 1)].query

\* the Fact Store holds a source record of source s of task i with the tags
\* of the task, stored by the thread pool or by the async coordinator
HasRecord(i, s, async) ==
    \E m \in 1..Len(memories) :
        /\ memories[m].category = "source"
        /\ memories[m].content = s.content
        /\ memories[m].metadata.url = s.url
        /\ memories[m].metadata.title = s.title
        /\ memories[m].metadata.sub_question = par_questions[i].question
        /\ memories[m].metadata.strategy = par_questions[i].search_strategy
        /\ memories[m].metadata.session_id = "par_session"
        /\ ("execution" \in DOMAIN memories[m].metadata) = async

\* some task found source s and returned it
FoundBy(s) ==
    {i \in Tasks : par_task[i].st = "finished" /\
                   \E k \in 1..Len(par_task[i].sources) : par_task[i].sources[k] = s}

\* C35: a task that has reported its result has a record in the Fact Store for
\* each of its sources, tagged with its sub-question, its strategy and the
\* session id; so has every source of the result of parallel_research and of
\* parallel_research_async
C35_TaskSourcesPersisted ==
    par_pc # "submit" =>
        /\ \A i \in Tasks :
              par_task[i].st = "finished" =>
                  \A k \in 1..Len(par_task[i].sources) :
                      HasRecord(i, par_task[i].sources[k], FALSE)
        /\ par_pc = "returned" =>
              \A k \in 1..Len(par_result.sources) :
                  \E i \in FoundBy(par_result.sources[k]) :
                      HasRecord(i, par_result.sources[k], FALSE)
        /\ async_result # NoAsyncResult =>
              \A k \in 1..Len(async_result.sources) :
                  \E i \in FoundBy(async_result.sources[k]) :
                      HasRecord(i, async_result.sources[k], TRUE)

\* the academic and the news task found sources, a third task failed, and
\* both coordinators have returned
C35_Witness ==
    /\ par_pc = "returned"
    /\ async_result # NoAsyncResult
    /\ Len(par_questions) = 3
    /\ par_task[1].st = "failed"
    /\ par_task[2].st = "finished" /\ par_task[2].sources # <<>>
    /\ par_task[3].st = "finished" /\ par_task[3].sources # <<>>
    /\ Len(async_result.sources) = 4

\* C36: the sources the research stage hands to synthesize, the first five of
\* which are stored as top sources, are in the order of falling relevance_score
C36_HandedSourcesRanked ==
    "research" \in DOMAIN stage_out =>
        \A k \in 1..(Len(stage_out["research"].sources) - 1) :
            stage_out["research"].sources[k].relevance_score >=
                stage_out["research"].sources[k + 1].relevance_score

\* C37: a task is pending, then running, then completed or error: completed
\* with progress 1.0, the result and the checkpoint whenever the pipeline run
\* for its query succeeds, error only when the pipeline run fails
C37_TaskFollowsPipeline ==
    \A id \in DOMAIN research_tasks :
        /\ research_tasks[id].status \in {"pending", "running", "completed", "error"}
        /\ research_tasks[id].pipeline = "returns" =>
              /\ research_tasks[id].status = "completed"
              /\ research_tasks[id].progress = 10
              /\ research_tasks[id].result # NullVal
              /\ CheckpointPath(id) \in DOMAIN ckpt_files
        /\ research_tasks[id].status = "error" =>
              research_tasks[id].pipeline = "raises"

\* C39: when conduct_research has raised to its caller, the Session of the run
\* has neither current_stage completed nor status completed
C39_CompletedOnlyOnSuccess ==
    orch_pc = "raised" /\ session_id \in DOMAIN sessions =>
        /\ sessions[session_id].current_stage # "completed"
        /\ ~("status" \in DOMAIN sessions[session_id]
             /\ sessions[session_id].status = "completed")

RECURSIVE SumLogged(_)
SumLogged(log) ==
    IF log = <<>> THEN 0 ELSE log[1].sources_found + SumLogged(Tail(log))

\* C38: all_sources only grows, by the sources of a turn appended after those
\* of the turns before; it holds as many sources as the log counts, the log's
\* iteration indices are 1, 2, ..., and the result returned has total_sources
\* = len(sources) = the sum of sources_found and iterations_completed =
\* len(research_log)
C38_SourcesAppendOnly ==
    /\ [][IsPrefix(all_sources, all_sources') /\ IsPrefix(research_log, research_log')]_vars
    /\ [](/\ Len(all_sources) = SumLogged(research_log)
          /\ \A k \in 1..Len(research_log) : research_log[k].iteration = k)
    /\ [](LoopReturned =>
             /\ ResearchResult.sources = all_sources
             /\ ResearchResult.total_sources = Len(ResearchResult.sources)
             /\ ResearchResult.total_sources = SumLogged(ResearchResult.research_log)
             /\ ResearchResult.iterations_completed = Len(ResearchResult.research_log)
             /\ \A k \in 1..ResearchResult.iterations_completed :
                    ResearchResult.research_log[k].iteration = k)

\* research returned after three turns that found sources in the first and
\* in a later turn
C38_Witness ==
    /\ LoopReturned
    /\ Len(research_log) = 3
    /\ research_log[1].sources_found = 2
    /\ research_log[3].sources_found > 0
    /\ ResearchResult.total_sources > 2

\* the handlers that publish number id has called so far, in order
InvokedIn(id) ==
    LET calls == SelectSeq(bus_log, LAMBDA e : e.kind = "invoke" /\ e.id = id)
    IN [k \in 1..Len(calls) |-> calls[k].handler]

\* the handlers subscribed to the topic before place n of the history, in order
SubscribedBefore(topic, n) ==
    LET subs == SelectSeq(SubSeq(bus_log, 1, n - 1),
                          LAMBDA e : e.kind = "subscribe" /\ e.topic = topic)
    IN [k \in 1..Len(subs) |-> subs[k].handler]

PublishReturned(id) == \E n \in DOMAIN bus_log : /\ bus_log[n].kind = "return"
                                                  /\ bus_log[n].id = id

\* C40: the bus does not deadlock when handlers call subscribe or publish on
\* it and when several threads use it at once: the lock is only ever held by
\* a thread that is inside one of the two "with" blocks and releases it with
\* its next step, never by a thread that is calling a handler or waiting, so
\* a thread that waits for the lock never waits for itself; and a publish
\* calls exactly the handlers subscribed to its topic before its snapshot,
\* in order: one subscribed later is not called by it and is called by every
\* publish to the topic whose snapshot comes after the subscription.
C40_BusNeverDeadlocks ==
    /\ bus_lock # None =>
          /\ bus_lock \in BusThreads
          /\ bus_stack[bus_lock] # <<>>
          /\ bus_stack[bus_lock][Len(bus_stack[bus_lock])].pc = "locked"
    /\ \A t \in BusThreads : \A i \in DOMAIN bus_stack[t] :
          /\ i < Len(bus_stack[t]) => bus_stack[t][i].pc = "handler"
          /\ bus_stack[t][i].pc = "acquire" => bus_lock # t
    /\ \A n \in DOMAIN bus_log :
          bus_log[n].kind = "snapshot" =>
            LET due == SubscribedBefore(bus_log[n].topic, n)
                called == InvokedIn(bus_log[n].id)
            IN /\ Len(called) <= Len(due)
               /\ called = SubSeq(due, 1, Len(called))
               /\ PublishReturned(bus_log[n].id) => called = due

\* two publishes to one topic run on two threads and both have called all
\* their handlers; a handler of the first one subscribed h to the topic while
\* it ran: the first publish has not called h, the second has
C40_Witness ==
    \E t1 \in BusThreads, t2 \in BusThreads, n \in DOMAIN bus_log :
        /\ t1 # t2
        /\ bus_stack[t1] # <<>>
        /\ bus_stack[t2] # <<>>
        /\ LET f1 == bus_stack[t1][Len(bus_stack[t1])]
               f2 == bus_stack[t2][Len(bus_stack[t2])]
               h == bus_log[n].handler
           IN /\ f1.op = "publish" /\ f1.pc = "deliver" /\ f1.next > Len(f1.handlers)
              /\ f2.op = "publish" /\ f2.pc = "deliver" /\ f2.next > Len(f2.handlers)
              /\ f1.topic = f2.topic
              /\ bus_log[n].kind = "subscribe"
              /\ bus_log[n].id = f1.id
              /\ bus_log[n].topic = f1.topic
              /\ \A k \in DOMAIN InvokedIn(f1.id) : InvokedIn(f1.id)[k] # h
              /\ \E k \in DOMAIN InvokedIn(f2.id) : InvokedIn(f2.id)[k] = h
============================================================================
